---- MODULE Spec2Model ----
(***************************************************************************)
(* Model of the QenF event aggregator: the verification agent              *)
(* (detectivent.py) and the store merge step of the source scrapers.       *)
(*                                                                         *)
(* A Python string is a sequence of one-character strings, so that         *)
(* lower-casing, stripping, slicing, substring search and the regular      *)
(* expressions of the source are computed character by character.          *)
(***************************************************************************)
EXTENDS Integers, Sequences, FiniteSets, TLC

(***************************************************************************)
(* Characters                                                              *)
(***************************************************************************)
UpperChars == <<"A","B","C","D","E","F","G","H","I","J","K","L","M",
                "N","O","P","Q","R","S","T","U","V","W","X","Y","Z">>
LowerChars == <<"a","b","c","d","e","f","g","h","i","j","k","l","m",
                "n","o","p","q","r","s","t","u","v","w","x","y","z">>
Digits == {"0","1","2","3","4","5","6","7","8","9"}
Space == {" ", "\t", "\n"}
\* the quote characters norm() unifies: ' and the four typographic quotes,
\* written here by name
Quotes == {"'", "lsquo", "rsquo", "ldquo", "rdquo"}

\* the accented letters of the month names, of the range \u00C0-\u024F
Accented == {"é", "û", "É"}

IsUpper(c) == \E k \in 1..26 : UpperChars[k] = c
\* [A-Za-z\u00C0-\u024F]
IsLetter(c) == c \in Accented \/ \E k \in 1..26 : UpperChars[k] = c \/ LowerChars[k] = c
LowerChar(c) ==
    IF IsUpper(c) THEN LowerChars[CHOOSE k \in 1..26 : UpperChars[k] = c]
    ELSE IF c = "É" THEN "é" ELSE c
DigitVal(c) ==
    CASE c = "0" -> 0 [] c = "1" -> 1 [] c = "2" -> 2 [] c = "3" -> 3
      [] c = "4" -> 4 [] c = "5" -> 5 [] c = "6" -> 6 [] c = "7" -> 7
      [] c = "8" -> 8 [] c = "9" -> 9

(***************************************************************************)
(* str methods                                                             *)
(***************************************************************************)
Min(S) == CHOOSE x \in S : \A y \in S : x <= y
Max(S) == CHOOSE x \in S : \A y \in S : x >= y

\* s[:n]
Take(s, n) == IF Len(s) <= n THEN s ELSE SubSeq(s, 1, n)
\* s.lower()
Lower(s) == [k \in 1..Len(s) |-> LowerChar(s[k])]
\* s.strip()
Strip(s) ==
    LET keep == {k \in 1..Len(s) : s[k] \notin Space}
    IN  IF keep = {} THEN <<>> ELSE SubSeq(s, Min(keep), Max(keep))
\* needle in haystack
IsSubstring(n, h) ==
    \E p \in 0..(Len(h) - Len(n)) : \A k \in 1..Len(n) : h[p + k] = n[k]
\* c * n
Rep(c, n) == [k \in 1..n |-> c]

\* re.sub(r"['...]", "'", s)
UnifyQuotes(s) == [k \in 1..Len(s) |-> IF s[k] \in Quotes THEN "'" ELSE s[k]]
\* re.sub(r"\s+", " ", s): a character is kept unless it is white space that
\* follows white space; kept white space becomes one blank
CollapseSpace(s) ==
    LET tagged == [k \in 1..Len(s) |->
                     [c |-> IF s[k] \in Space THEN " " ELSE s[k],
                      drop |-> s[k] \in Space /\ k > 1 /\ s[k - 1] \in Space]]
        kept == SelectSeq(tagged, LAMBDA t : ~t.drop)
    IN  [k \in 1..Len(kept) |-> kept[k].c]

\* norm(): lower-case and strip, unify the quotes, collapse white space
norm(s) == CollapseSpace(UnifyQuotes(Strip(Lower(s))))

(***************************************************************************)
(* difflib.SequenceMatcher(None, a, b).ratio(), as similarity() calls it:  *)
(* no junk function, autojunk left on.  The ratio 2*M/T is kept as the     *)
(* pair of integers [num, den].                                            *)
(***************************************************************************)
AUTOJUNK_MIN_LEN == 200

\* the elements of b that autojunk drops from the index b2j: those that occur
\* more than len(b) // 100 + 1 times, once b has 200 elements or more
Popular(b) ==
    IF Len(b) < AUTOJUNK_MIN_LEN THEN {}
    ELSE {c \in {b[k] : k \in 1..Len(b)} :
            Cardinality({k \in 1..Len(b) : b[k] = c}) > (Len(b) \div 100) + 1}

\* length of the common run of a and b that starts at a[i], b[j], stops before
\* a[ahi], b[bhi] and holds no element of pop (the elements left out of b2j)
RECURSIVE RunLen(_, _, _, _, _, _, _)
RunLen(a, b, i, j, ahi, bhi, pop) ==
    IF i < ahi /\ j < bhi /\ a[i] = b[j] /\ b[j] \notin pop
    THEN 1 + RunLen(a, b, i + 1, j + 1, ahi, bhi, pop)
    ELSE 0

\* length of the common run that ends just before a[i], b[j] and starts at or
\* after a[alo], b[blo]
RECURSIVE RunLenBack(_, _, _, _, _, _)
RunLenBack(a, b, i, j, alo, blo) ==
    IF i > alo /\ j > blo /\ a[i - 1] = b[j - 1]
    THEN 1 + RunLenBack(a, b, i - 1, j - 1, alo, blo)
    ELSE 0

\* find_longest_match(alo, ahi, blo, bhi) on the half-open ranges a[alo..ahi),
\* b[blo..bhi) (1-based): the longest block of indexed elements, the earliest
\* in a and then in b among the longest, then extended on both sides over
\* equal elements
find_longest_match(a, b, alo, ahi, blo, bhi, pop) ==
    LET cand == {p \in (alo..(ahi - 1)) \X (blo..(bhi - 1)) :
                    a[p[1]] = b[p[2]] /\ b[p[2]] \notin pop}
        len  == [p \in cand |-> RunLen(a, b, p[1], p[2], ahi, bhi, pop)]
        best == IF cand = {} THEN 0 ELSE Max({len[p] : p \in cand})
        bi   == IF cand = {} THEN alo
                ELSE Min({p[1] : p \in {q \in cand : len[q] = best}})
        bj   == IF cand = {} THEN blo
                ELSE Min({p[2] : p \in {q \in cand : len[q] = best /\ q[1] = bi}})
        back == RunLenBack(a, b, bi, bj, alo, blo)
        fwd  == RunLen(a, b, bi + best, bj + best, ahi, bhi, {})
    IN  [i |-> bi - back, j |-> bj - back, size |-> back + best + fwd]

\* get_matching_blocks(): the total size of the matching blocks
RECURSIVE MatchTotal(_, _, _, _, _, _, _)
MatchTotal(a, b, alo, ahi, blo, bhi, pop) ==
    LET m == find_longest_match(a, b, alo, ahi, blo, bhi, pop)
    IN  IF m.size = 0 THEN 0
        ELSE m.size
             + (IF alo < m.i /\ blo < m.j
                THEN MatchTotal(a, b, alo, m.i, blo, m.j, pop) ELSE 0)
             + (IF m.i + m.size < ahi /\ m.j + m.size < bhi
                THEN MatchTotal(a, b, m.i + m.size, ahi, m.j + m.size, bhi, pop)
                ELSE 0)

\* ratio(): 2.0 * matches / (len(a) + len(b)), 1.0 when both are empty
Ratio(a, b) ==
    IF Len(a) + Len(b) = 0 THEN [num |-> 1, den |-> 1]
    ELSE [num |-> 2 * MatchTotal(a, b, 1, Len(a) + 1, 1, Len(b) + 1, Popular(b)),
          den |-> Len(a) + Len(b)]

similarity(a, b) == Ratio(norm(a), norm(b))

\* sim < pct / 100, for a threshold written in hundredths
Below(sim, pct) == sim.num * 100 < pct * sim.den

contains(needle, haystack) == IsSubstring(norm(needle), norm(haystack))

(***************************************************************************)
(* parse_dates_in_text                                                     *)
(***************************************************************************)
\* the character classes of the regular expressions
InClass(c, cls) ==
    CASE cls = "digit"  -> c \in Digits
      [] cls = "space"  -> c \in Space
      [] cls = "letter" -> IsLetter(c)
      [] cls = "dollar" -> c = "$"
      [] cls = "sep"    -> c \in {".", ","}
      [] cls = "word"   -> IsLetter(c) \/ c \in Digits \/ c = "_"
      [] cls = "quote"  -> c \in {"'", "rsquo"}
      [] cls = "colon"  -> c \in {":", "-"}
      [] cls = "ages"   -> c \in Digits \cup Space \cup {"-", "à", "a"}
      [] OTHER          -> c = cls       \* the class of one literal character

\* number of consecutive characters of the class cls from the 0-based index p
\* on, max at most
RECURSIVE ClassRun(_, _, _, _)
ClassRun(text, p, cls, max) ==
    IF max > 0 /\ p < Len(text) /\ InClass(text[p + 1], cls)
    THEN 1 + ClassRun(text, p + 1, cls, max - 1)
    ELSE 0

\* the lengths of the greedy runs of the classes of pat, one after the other
\* from the 0-based index p on; each element of pat is <<class, longest run>>
RECURSIVE RunLengths(_, _, _)
RunLengths(text, p, pat) ==
    IF pat = <<>> THEN <<>>
    ELSE LET n == ClassRun(text, p, pat[1][1], pat[1][2])
         IN  <<n>> \o RunLengths(text, p + n, Tail(pat))

\* int() of a string of digits
RECURSIVE ToInt(_)
ToInt(ds) ==
    IF ds = <<>> THEN 0
    ELSE 10 * ToInt(SubSeq(ds, 1, Len(ds) - 1)) + DigitVal(ds[Len(ds)])

\* s[p:p+n], p a 0-based index
Slice(s, p, n) ==
    IF n <= 0 \/ p >= Len(s) THEN <<>>
    ELSE SubSeq(s, p + 1, IF p + n > Len(s) THEN Len(s) ELSE p + n)

MONTHS_FR(w) ==
    CASE w = <<"j","a","n","v","i","e","r">> -> 1
      [] w = <<"f","é","v","r","i","e","r">> -> 2
      [] w = <<"m","a","r","s">> -> 3
      [] w = <<"a","v","r","i","l">> -> 4
      [] w = <<"m","a","i">> -> 5
      [] w = <<"j","u","i","n">> -> 6
      [] w = <<"j","u","i","l","l","e","t">> -> 7
      [] w = <<"a","o","û","t">> -> 8
      [] w = <<"s","e","p","t","e","m","b","r","e">> -> 9
      [] w = <<"o","c","t","o","b","r","e">> -> 10
      [] w = <<"n","o","v","e","m","b","r","e">> -> 11
      [] w = <<"d","é","c","e","m","b","r","e">> -> 12
      [] OTHER -> 0

\* r"(\d{1,2})\s+([A-Za-z\u00C0-\u024F]+)\s+(\d{4})" tried at the 0-based index
\* p.  Every quantifier is greedy and each run is followed by a character of
\* another class, so the only split that can match takes each run whole: one
\* or two digits, white space, letters, white space, then four digits (more
\* digits may follow).
ANY == 100000
DatePattern == <<<<"digit", ANY>>, <<"space", ANY>>, <<"letter", ANY>>,
                 <<"space", ANY>>, <<"digit", 4>>>>
DateMatch(text, p) ==
    LET r == RunLengths(text, p, DatePattern)
    IN  [ok    |-> r[1] \in {1, 2} /\ r[2] >= 1 /\ r[3] >= 1 /\ r[4] >= 1 /\ r[5] = 4,
         day   |-> Slice(text, p, r[1]),
         month |-> Slice(text, p + r[1] + r[2], r[3]),
         year  |-> Slice(text, p + r[1] + r[2] + r[3] + r[4], 4),
         end   |-> p + r[1] + r[2] + r[3] + r[4] + 4]

IsLeap(y) == y % 4 = 0 /\ (y % 100 # 0 \/ y % 400 = 0)
DaysInMonth(y, m) ==
    IF m = 2 THEN (IF IsLeap(y) THEN 29 ELSE 28)
    ELSE IF m \in {4, 6, 9, 11} THEN 30 ELSE 31
\* a date constructor that accepts every day up to 31
ValidDate_AnyDay(y, m, d) == y >= 1 /\ y <= 9999 /\ m \in 1..12 /\ d >= 1 /\ d <= 31

\* datetime.date(y, m, d) raises ValueError unless this holds (MINYEAR is 1)
ValidDate(y, m, d) == y >= 1 /\ y <= 9999 /\ m \in 1..12 /\ d >= 1 /\ d <= DaysInMonth(y, m)

RECURSIVE DaysBeforeMonth(_, _)
DaysBeforeMonth(y, m) ==
    IF m = 1 THEN 0 ELSE DaysBeforeMonth(y, m - 1) + DaysInMonth(y, m - 1)
\* date.toordinal(): differences of ordinals are the .days of date differences
Ordinal(dt) ==
    LET y == dt.year - 1
    IN  y * 365 + (y \div 4) - (y \div 100) + (y \div 400)
        + DaysBeforeMonth(dt.year, dt.month) + dt.day

\* re.finditer from the 0-based index pos on: leftmost match, then on from its end
RECURSIVE DatesFrom(_, _)
DatesFrom(text, pos) ==
    LET starts == {p \in pos..(Len(text) - 1) :
                     text[p + 1] \in Digits /\ DateMatch(text, p).ok}
    IN  IF starts = {} THEN <<>>
        ELSE LET m     == DateMatch(text, Min(starts))
                 month == MONTHS_FR(Lower(m.month))
                 y     == ToInt(m.year)
                 d     == ToInt(m.day)
             IN  (IF month # 0 /\ ValidDate(y, month, d)
                  THEN <<[year |-> y, month |-> month, day |-> d]>>
                  ELSE <<>>)
                 \o DatesFrom(text, m.end)

parse_dates_in_text(text) == DatesFrom(text, 0)

(***************************************************************************)
(* extract_amounts: amounts are kept in hundredths (29,50 is 2950)         *)
(***************************************************************************)
\* r"\$?\s*(\d{1,4}(?:[.,]\d{1,2})?)\s*\$?" tried at the 0-based index p: an
\* optional dollar sign, white space, one to four digits, then a separator
\* with one or two digits if both are there, white space, an optional dollar
\* sign
AmountHead == <<<<"dollar", 1>>, <<"space", ANY>>, <<"digit", 4>>,
                <<"sep", 1>>, <<"digit", 2>>>>
AmountTail == <<<<"space", ANY>>, <<"dollar", 1>>>>
AmountEnd(text, p, r) ==
    LET e1 == p + r[1] + r[2] + r[3] + (IF r[4] = 1 /\ r[5] > 0 THEN 1 + r[5] ELSE 0)
        t  == RunLengths(text, e1, AmountTail)
    IN  e1 + t[1] + t[2]
AmountValue(text, p, r) ==
    LET frac == IF r[4] = 1 THEN ToInt(Slice(text, p + r[1] + r[2] + r[3] + 1, r[5])) ELSE 0
    IN  100 * ToInt(Slice(text, p + r[1] + r[2], r[3]))
        + (IF r[4] = 1 /\ r[5] = 1 THEN 10 * frac ELSE frac)
AmountMatch(text, p) ==
    LET r == RunLengths(text, p, AmountHead)
    IN  [ok    |-> r[3] >= 1,
         value |-> AmountValue(text, p, r),
         end   |-> AmountEnd(text, p, r)]

AMOUNT_MIN == 1
AMOUNT_MAX == 999

RECURSIVE AmountsFrom(_, _)
AmountsFrom(text, pos) ==
    LET starts == {p \in pos..(Len(text) - 1) :
                     text[p + 1] \in (Digits \cup Space \cup {"$"})
                     /\ AmountMatch(text, p).ok}
    IN  IF starts = {} THEN <<>>
        ELSE LET m == AmountMatch(text, Min(starts))
             IN  (IF 100 * AMOUNT_MIN <= m.value /\ m.value <= 100 * AMOUNT_MAX
                  THEN <<m.value>> ELSE <<>>)
                 \o AmountsFrom(text, m.end)

extract_amounts(text) == AmountsFrom(text, 0)

(***************************************************************************)
(* prices_compatible                                                       *)
(***************************************************************************)
GRATUIT == <<"g","r","a","t","u","i","t">>
INCLUS == <<"i","n","c","l","u","s">>
VOIR_LE_SITE == <<"v","o","i","r"," ","l","e"," ","s","i","t","e">>

\* the tolerance 0.10 in hundredths
PRICE_TOL_PCT == 10

Abs(n) == IF n < 0 THEN -n ELSE n

\* the comparison with the bound included: abs(pa - ca) / ca <= 0.10
Near_Inclusive(pa, ca) == Abs(pa - ca) * 100 <= PRICE_TOL_PCT * ca

\* abs(pa - ca) / ca < 0.10, on amounts in hundredths.  The quotient is compared
\* exactly; binary floating point agrees with it on the amounts the
\* specifications below draw (whole and half dollars).
Near(pa, ca) == Abs(pa - ca) * 100 < PRICE_TOL_PCT * ca

prices_compatible(card_prix, page_text) ==
    IF card_prix = <<>> \/ Lower(card_prix) \in {VOIR_LE_SITE, <<>>} THEN TRUE
    ELSE LET cp == norm(card_prix)
             pt == norm(page_text)
         IN  IF IsSubstring(GRATUIT, cp) THEN IsSubstring(GRATUIT, pt)
             ELSE IF IsSubstring(INCLUS, cp)
                  THEN IsSubstring(INCLUS, pt) \/ IsSubstring(GRATUIT, pt)
             ELSE LET card_amounts == extract_amounts(card_prix)
                      page_amounts == extract_amounts(page_text)
                  IN  IF card_amounts = <<>> THEN TRUE
                      ELSE IF page_amounts = <<>> THEN FALSE
                      ELSE \A i \in 1..Len(card_amounts) :
                             \E j \in 1..Len(page_amounts) :
                                Near(page_amounts[j], card_amounts[i])

(***************************************************************************)
(* extract_page_data.  A soup is the fetched page as the parser presents   *)
(* it: whether it has a main, article or body element, the text of that    *)
(* element, and the value each field cascade finds in it.                  *)
(***************************************************************************)
FULL_TEXT_CAP == 3000

FILLER == "x"
\* body.get_text(" ", strip=True): lead characters of other text, then rest
SoupText(s) == Rep(FILLER, s.lead) \o s.rest

\* the dict returned for a page without body: every page.get() gives its default
NoPage == [titre |-> <<>>, date_str |-> <<>>, prix_raw |-> <<>>, lieu |-> <<>>,
           description |-> <<>>, full_text |-> <<>>, empty |-> TRUE]

extract_page_data(soup) ==
    IF ~soup.body THEN NoPage
    ELSE [titre       |-> soup.titre,
          date_str    |-> soup.date_str,
          prix_raw    |-> soup.prix_raw,
          lieu        |-> soup.lieu,
          description |-> soup.description,
          full_text   |-> Take(SoupText(soup), FULL_TEXT_CAP),
          empty       |-> FALSE]

(***************************************************************************)
(* verify_event: the field checks                                          *)
(***************************************************************************)
TITLE_SIM_THRESHOLD == 72
TEXT_SIM_THRESHOLD == 50
LIEU_SIM_THRESHOLD == 50
DATE_TOLERANCE_DAYS == 3
DESC_MIN_LEN == 60
DESC_SIM_LEN == 200
VALUE_CUT == 150
IMAGE_CUT == 80

\* the character U+2026, by name
ELLIPSIS == <<"hellip">>
NO_DATE_FOUND == <<"(aucune date trouvée)">>
NOT_FOUND == <<"(non trouvé)">>

Err(field, issue, card_value, page_value) ==
    [field |-> field, issue |-> issue, card_value |-> card_value, page_value |-> page_value]

\* 1. Titre
TitleCheck(card_titre, page_titre) ==
    IF card_titre # <<>> /\ page_titre # <<>>
       /\ Below(similarity(card_titre, page_titre), TITLE_SIM_THRESHOLD)
       /\ ~contains(card_titre, page_titre)
    THEN <<Err("titre", "Titre divergent", card_titre, page_titre)>>
    ELSE <<>>

\* 2. Date
DateCheck(card_date, page_date, page_full) ==
    IF card_date = <<>> THEN <<>>
    ELSE LET card_date_objects == parse_dates_in_text(card_date)
             page_date_objects == parse_dates_in_text(page_full)
         IN  IF card_date_objects # <<>> /\ page_date_objects # <<>>
             THEN LET card_start == Min({Ordinal(card_date_objects[k]) :
                                           k \in 1..Len(card_date_objects)})
                  IN  IF \E k \in 1..Len(page_date_objects) :
                            Abs(Ordinal(page_date_objects[k]) - card_start)
                               <= DATE_TOLERANCE_DAYS
                      THEN <<>>
                      ELSE <<Err("date", "Date carte non retrouvée sur la page", card_date,
                                 IF page_date # <<>> THEN page_date ELSE NO_DATE_FOUND)>>
             ELSE IF page_date_objects = <<>>
             THEN <<Err("date", "La carte a une date mais la page n'en affiche aucune",
                        card_date, NO_DATE_FOUND)>>
             ELSE <<>>

\* 3. Prix
PriceCheck(card_prix, page) ==
    IF ~prices_compatible(card_prix, page.full_text)
    THEN <<Err("prix", "Prix carte incompatible avec la page", card_prix,
               IF page.empty THEN NOT_FOUND ELSE page.prix_raw)>>
    ELSE <<>>

\* 4. Lieu
LieuCheck(card_lieu, page_lieu) ==
    IF card_lieu # <<>> /\ page_lieu # <<>>
       /\ Below(similarity(card_lieu, page_lieu), LIEU_SIM_THRESHOLD)
       /\ ~contains(page_lieu, card_lieu) /\ ~contains(card_lieu, page_lieu)
    THEN <<Err("lieu", "Lieu carte différent de la page", card_lieu, page_lieu)>>
    ELSE <<>>

\* re.split(r"[.!?]", s)[0]
FirstSplit(s) ==
    LET at == {k \in 1..Len(s) : s[k] \in {".", "!", "?"}}
    IN  IF at = {} THEN s ELSE SubSeq(s, 1, Min(at) - 1)

\* 5. Description
DescCheck(card_desc, page_desc, page_full) ==
    IF card_desc # <<>> /\ Len(card_desc) > DESC_MIN_LEN /\ page_desc # <<>>
    THEN LET sim == similarity(Take(card_desc, DESC_SIM_LEN), Take(page_desc, DESC_SIM_LEN))
             first_sentence == Strip(FirstSplit(card_desc))
         IN  IF Below(sim, TEXT_SIM_THRESHOLD) /\ ~contains(first_sentence, page_full)
             THEN <<Err("description", "Description carte divergente de la page",
                        Take(card_desc, VALUE_CUT) \o ELLIPSIS,
                        Take(page_desc, VALUE_CUT) \o ELLIPSIS)>>
             ELSE <<>>
    ELSE <<>>

\* the answer to a request: a response with its status, or a
\* RequestException raised without any response (connection error, timeout)
Response(status) == [exc |-> FALSE, status |-> status]
Failure == [exc |-> TRUE, status |-> 0]

\* 6. Image: probe is the answer to requests.head
ImageCheck(card_image, probe) ==
    IF card_image = <<>> THEN <<>>
    ELSE IF probe.exc \/ probe.status >= 400
    THEN <<Err("image", "Image inaccessible", Take(card_image, IMAGE_CUT) \o ELLIPSIS, <<>>)>>
    ELSE <<>>

\* verify_event without its sixth check
FieldErrors_NoImage(ev, soup, probe) ==
    LET page == extract_page_data(soup)
    IN  TitleCheck(ev.titre, page.titre)
        \o DateCheck(ev.date, page.date_str, page.full_text)
        \o PriceCheck(ev.prix, page)
        \o LieuCheck(ev.lieu, page.lieu)
        \o DescCheck(ev.description, page.description, page.full_text)

\* the errors list verify_event builds once the page is fetched
FieldErrors(ev, soup, probe) ==
    LET page == extract_page_data(soup)
    IN  TitleCheck(ev.titre, page.titre)
        \o DateCheck(ev.date, page.date_str, page.full_text)
        \o PriceCheck(ev.prix, page)
        \o LieuCheck(ev.lieu, page.lieu)
        \o DescCheck(ev.description, page.description, page.full_text)
        \o ImageCheck(ev.image, probe)

(***************************************************************************)
(* State                                                                   *)
(***************************************************************************)
VARIABLES
    chk,            \* one field check: its inputs and the errors it returned
    input,          \* the verifier's input file
    limit,          \* args.limit
    events,         \* main(): the list being verified
    pc,             \* main(): where control is
    i,              \* main(): the loop index, from 1
    ok_count,
    skip_count,
    errors_found,
    attempt,        \* fetch(): the loop variable
    gets,           \* fetch(): the answers to the GETs issued for the current URL
    sleeps,         \* fetch(): the backoff sleeps done for the current URL
    soup,           \* verify_event(): what fetch returned
    outcomes,       \* the outcome given to each event so far, in processing order
    report,         \* the error report file
    exit_code,
    store,          \* evenements.json
    runs,           \* the source script runs so far: source, batch and store before
    call,           \* one call of a source module's function: arguments and result
    scraper,        \* the source module whose main() runs
    mpc,            \* main() of the source module: where control is
    page_num,       \* main(): the listing page asked for next
    total_pages,    \* scraper_mnbaq.main(): get_total_pages(first_page)
    empty_streak,   \* scraper_gestev.main(): consecutive listing pages without card
    all_cards,      \* main(): the cards collected from the listing pages
    unique_cards,   \* main(): the cards after deduplication
    nth,            \* main(): position in the loop over the cards, from 1
    evenements,     \* main(): the records built so far
    fetches         \* main(): what each page fetch was for and whether it gave a page

chkVars == <<chk>>
runVars == <<input, limit, events, pc, i, ok_count, skip_count, errors_found,
             attempt, gets, sleeps, soup, outcomes, report, exit_code>>
storeVars == <<store, runs>>
mainVars == <<scraper, mpc, page_num, total_pages, empty_streak, all_cards, unique_cards,
              nth, evenements, fetches>>
srcVars == <<call, mainVars>>
vars == <<chk, input, limit, events, pc, i, ok_count, skip_count, errors_found,
          attempt, gets, sleeps, soup, outcomes, report, exit_code, store, runs, call,
          scraper, mpc, page_num, total_pages, empty_streak, all_cards, unique_cards,
          nth, evenements, fetches>>

\* None is the empty sequence and a value v that may be None is <<v>>
None == <<>>
Some(v) == <<v>>

\* the parts of the state a specification does not use
NoCheck == [kind |-> "none", ev |-> <<>>, soup |-> <<>>, done |-> TRUE, out |-> <<>>]
ChkIdle == chk = NoCheck
RunIdle ==
    /\ input = [kind |-> "none", key |-> "", events |-> <<>>] /\ limit = 0 /\ events = <<>> /\ pc = "idle" /\ i = 0
    /\ ok_count = 0 /\ skip_count = 0 /\ errors_found = <<>>
    /\ attempt = 0 /\ gets = <<>> /\ sleeps = <<>> /\ soup = None
    /\ outcomes = <<>> /\ report = None /\ exit_code = None
StoreIdle == store = [exists |-> FALSE, records |-> <<>>] /\ runs = <<>>
NoCall == [fn |-> "", done |-> FALSE]
MainIdle ==
    /\ scraper = "" /\ mpc = "idle" /\ page_num = 0 /\ total_pages = 0 /\ empty_streak = 0
    /\ all_cards = <<>> /\ unique_cards = <<>> /\ nth = 0 /\ evenements = <<>>
    /\ fetches = <<>>
SrcIdle == call = NoCall /\ MainIdle

(***************************************************************************)
(* Inputs                                                                  *)
(***************************************************************************)
\* every string over the alphabet A of length n at most
StringsUpTo(A, n) == UNION {[1..k -> A] : k \in 0..n}

\* the concatenations of n pieces at most, joined by sep
RECURSIVE Joined(_, _, _)
Joined(P, sep, n) ==
    IF n = 0 THEN {<<>>}
    ELSE Joined(P, sep, n - 1)
         \cup P
         \cup {a \o sep \o b : a \in Joined(P, sep, n - 1) \ {<<>>}, b \in P}

\* an event record without any field, and a page without any content
NoEvent == [titre |-> <<>>, date |-> <<>>, prix |-> <<>>, lieu |-> <<>>,
            description |-> <<>>, image |-> <<>>, URL |-> <<>>]
NoSoup == [body |-> TRUE, titre |-> <<>>, date_str |-> <<>>, prix_raw |-> <<>>,
           lieu |-> <<>>, description |-> <<>>, lead |-> 0, rest |-> <<>>]

MaxTitleLen == 2
TitleAlphabet == {"a", "b", "A", " "}
TitleSamples == {<<"A","t","e","l","i","e","r"," ","d","e"," ","d","e","s","s","i","n"," ","p","o","u","r"," ","e","n","f","a","n","t","s">>, <<"A","t","e","l","i","e","r"," ","d","e"," ","d","e","s","s","i","n">>,
                 <<"a","b","a","b">>, <<"a","b","a","a">>}
TitleInputs == StringsUpTo(TitleAlphabet, MaxTitleLen) \cup TitleSamples

MaxDatePhrases == 2
DatePhrases == {<<"5"," ","m","a","i"," ","2","0","2","6">>, <<"8"," ","M","a","i"," ","2","0","2","6">>, <<"9"," ","m","a","i"," ","2","0","2","6">>,
                <<"3","1"," ","f","é","v","r","i","e","r"," ","2","0","2","6">>, <<"s","a","m","e","d","i">>}
DateInputs == Joined(DatePhrases, <<" ","a","u"," ">>, MaxDatePhrases)
\* a date that lies behind more text than full_text keeps
LateDate == [lead |-> FULL_TEXT_CAP, rest |-> <<" ","5"," ","m","a","i"," ","2","0","2","6">>]

MaxCardPieces == 2
MaxPagePieces == 2
CardPieces == {<<"G","r","a","t","u","i","t">>, <<"i","n","c","l","u","s">>,
               <<"V","o","i","r"," ","l","e"," ","s","i","t","e">>, <<"1","0"," ","$">>,
               <<"1","1">>, <<"2","0",",","5","0">>, <<"2","0","2","6">>}
PagePieces == {<<"g","r","a","t","u","i","t">>, <<"I","n","c","l","u","s">>,
               <<"1","0"," ","$">>, <<"1","1">>}
CardPrices == Joined(CardPieces, <<" ">>, MaxCardPieces)
PagePrices == Joined(PagePieces, <<" ">>, MaxPagePieces)

\* descriptions: a first sentence, then n characters of running text
CycleA == <<"c","d","e","f","g","h","i","j","k","l">>
CycleB == <<"m","n","o","p","q","r","s","t","u","v">>
Cyc(c, n) == [k \in 1..n |-> c[((k - 1) % Len(c)) + 1]]
DescHeads == {<<"a","b","."," ">>, <<"b","a","!"," ">>}
DescCards == {h \o Cyc(CycleA, n) : h \in DescHeads,
                n \in {DESC_MIN_LEN - 4, DESC_MIN_LEN - 3, DESC_SIM_LEN}}
DescPages == {<<>>, <<"a","b","."," ">> \o Cyc(CycleA, DESC_MIN_LEN),
              <<"z","z"," ">> \o Cyc(CycleB, DESC_MIN_LEN),
              <<"z","z"," ">> \o Cyc(CycleB, DESC_SIM_LEN)}
DescTexts == {[lead |-> n, rest |-> r] : n \in {0, FULL_TEXT_CAP},
                r \in {<<>>, <<" ","A","B"," ">>, <<" ","b","a"," ">>}}

(***************************************************************************)
(* The field checks of verify_event, each applied to drawn inputs          *)
(***************************************************************************)
Check(kind, ev, s) == [kind |-> kind, ev |-> ev, soup |-> s, done |-> FALSE, out |-> <<>>]

TitleChecks ==
    {Check("titre", [NoEvent EXCEPT !.titre = c], [NoSoup EXCEPT !.titre = p]) :
       c \in TitleInputs, p \in TitleInputs}
DateChecks ==
    {Check("date", [NoEvent EXCEPT !.date = c], [NoSoup EXCEPT !.rest = p]) :
       c \in DateInputs, p \in DateInputs}
LateDateChecks ==
    {Check("date", [NoEvent EXCEPT !.date = c],
           [NoSoup EXCEPT !.lead = LateDate.lead, !.rest = LateDate.rest]) :
       c \in DateInputs}
PriceChecks ==
    {Check("prix", [NoEvent EXCEPT !.prix = c], [NoSoup EXCEPT !.rest = p]) :
       c \in CardPrices, p \in PagePrices}
DescChecks ==
    {Check("description", [NoEvent EXCEPT !.description = c],
           [NoSoup EXCEPT !.description = d, !.lead = t.lead, !.rest = t.rest]) :
       c \in DescCards, d \in DescPages, t \in DescTexts}

InitFields ==
    /\ \/ chk \in TitleChecks
       \/ chk \in DateChecks
       \/ chk \in LateDateChecks
       \/ chk \in PriceChecks
       \/ chk \in DescChecks
    /\ RunIdle /\ StoreIdle /\ SrcIdle

CheckTitre ==
    /\ chk.kind = "titre" /\ ~chk.done
    /\ chk' = [chk EXCEPT !.done = TRUE, !.out = TitleCheck(chk.ev.titre, extract_page_data(chk.soup).titre)]
    /\ UNCHANGED <<runVars, storeVars, srcVars>>

CheckDate ==
    /\ chk.kind = "date" /\ ~chk.done
    /\ LET page == extract_page_data(chk.soup)
       IN  chk' = [chk EXCEPT !.done = TRUE, !.out = DateCheck(chk.ev.date, page.date_str, page.full_text)]
    /\ UNCHANGED <<runVars, storeVars, srcVars>>

CheckPrix ==
    /\ chk.kind = "prix" /\ ~chk.done
    /\ chk' = [chk EXCEPT !.done = TRUE, !.out = PriceCheck(chk.ev.prix, extract_page_data(chk.soup))]
    /\ UNCHANGED <<runVars, storeVars, srcVars>>

CheckDescription ==
    /\ chk.kind = "description" /\ ~chk.done
    /\ LET page == extract_page_data(chk.soup)
       IN  chk' = [chk EXCEPT !.done = TRUE, !.out =
                     DescCheck(chk.ev.description, page.description, page.full_text)]
    /\ UNCHANGED <<runVars, storeVars, srcVars>>

NextFields == CheckTitre \/ CheckDate \/ CheckPrix \/ CheckDescription

SpecFields == InitFields /\ [][NextFields]_vars

(***************************************************************************)
(* Properties of the field checks                                          *)
(***************************************************************************)
Checked(kind) == chk.kind = kind /\ chk.done

OrdinalsOf(ds) == {Ordinal(ds[k]) : k \in 1..Len(ds)}

\* C7: the date check records an error if and only if the stored date value
\* holds a parseable date and the live page text holds no parseable date or
\* none within 3 days of the earliest stored date; a stored value without
\* parseable date never gives an error.
C7_DateErrorIffStoredDateUnmatched ==
    Checked("date") =>
        LET stored == OrdinalsOf(parse_dates_in_text(chk.ev.date))
            live   == OrdinalsOf(parse_dates_in_text(SoupText(chk.soup)))
        IN  (chk.out # <<>>) <=>
               /\ stored # {}
               /\ \/ live = {}
                  \/ \A d \in live :
                        d - Min(stored) > DATE_TOLERANCE_DAYS
                        \/ Min(stored) - d > DATE_TOLERANCE_DAYS

\* C8: with both titles non-empty, the title check records an error if and
\* only if the similarity is below 0.72 and neither normalized title is a
\* substring of the other.
C8_TitleErrorIffDissimilarAndNeitherContained ==
    (Checked("titre") /\ chk.ev.titre # <<>> /\ chk.soup.titre # <<>>) =>
        ((chk.out # <<>>) <=>
            /\ Below(similarity(chk.ev.titre, chk.soup.titre), TITLE_SIM_THRESHOLD)
            /\ ~IsSubstring(norm(chk.ev.titre), norm(chk.soup.titre))
            /\ ~IsSubstring(norm(chk.soup.titre), norm(chk.ev.titre)))

\* the words of the price claim, looked for without regard to case
Mentions(word, text) == IsSubstring(word, Lower(text))
\* within 10 % of the stored amount ca
Within10Percent(pa, ca) ==
    IF pa >= ca THEN 10 * (pa - ca) < ca ELSE 10 * (ca - pa) < ca
PriceClaim(card, live) ==
    IF Mentions(GRATUIT, card) THEN Mentions(GRATUIT, live)
    ELSE IF Mentions(INCLUS, card) THEN Mentions(INCLUS, live) \/ Mentions(GRATUIT, live)
    ELSE LET stored == extract_amounts(card)
             found  == extract_amounts(live)
         IN  \/ stored = <<>>
             \/ /\ found # <<>>
                /\ \A k \in 1..Len(stored) :
                      \E n \in 1..Len(found) : Within10Percent(found[n], stored[k])

C10_DescErrorIffDissimilarAndSentenceAbsent ==
    Checked("description") =>
        ((chk.out # <<>>) <=>
            /\ Len(chk.ev.description) > DESC_MIN_LEN
            /\ chk.soup.description # <<>>
            /\ Below(similarity(Take(chk.ev.description, DESC_SIM_LEN),
                                Take(chk.soup.description, DESC_SIM_LEN)),
                     TEXT_SIM_THRESHOLD)
            /\ ~IsSubstring(norm(Strip(FirstSplit(chk.ev.description))),
                            norm(SoupText(chk.soup))))

(***************************************************************************)
(* A verification run: detectivent.main, verify_event and fetch            *)
(***************************************************************************)
RETRIES == 3
DEAD_CODES == {404, 410}
KNOWN_KEYS == {"evenements", "events", "data"}

\* a variant of the backoff that grows by one second per attempt
Pow2_Linear(n) == n + 1

RECURSIVE Pow2(_)
Pow2(n) == IF n = 0 THEN 1 ELSE 2 * Pow2(n - 1)

\* r.raise_for_status() raises HTTPError for a 4xx or 5xx status
RaisesHTTPError(r) == ~r.exc /\ r.status >= 400 /\ r.status < 600

\* the truth value of a requests.Response is its ok property: False when
\* raise_for_status() raises
ResponseBool(r) == ~RaisesHTTPError(r)

\* code = e.response.status_code if e.response else 0
HTTPErrorCode(r) == IF ResponseBool(r) THEN r.status ELSE 0

\* load_events without its final raise: an unrecognized shape is an empty list
load_events_Lenient(f) ==
    IF f.kind = "missing" THEN [exc |-> "FileNotFoundError", events |-> <<>>]
    ELSE [exc |-> "", events |-> f.events]

\* load_events: the list it returns, or the exception it raises
load_events(f) ==
    IF f.kind = "missing" THEN [exc |-> "FileNotFoundError", events |-> <<>>]
    ELSE IF f.kind = "array" THEN [exc |-> "", events |-> f.events]
    ELSE IF f.kind = "object" /\ f.key \in KNOWN_KEYS THEN [exc |-> "", events |-> f.events]
    ELSE IF f.kind = "event" THEN [exc |-> "", events |-> f.events]
    ELSE [exc |-> "ValueError", events |-> <<>>]

MissingEntry(ev) ==
    [event |-> ev, errors |-> <<Err("URL", "URL manquante", <<>>, <<>>)>>,
     url_status |-> "missing", verified_at |-> None]
UnreachableEntry(ev, url) ==
    [event |-> ev, errors |-> <<Err("URL", "URL inaccessible (404/timeout)", url, <<>>)>>,
     url_status |-> "unreachable", verified_at |-> None]
FlaggedEntry(ev, errors) ==
    [event |-> ev, errors |-> errors, url_status |-> "ok", verified_at |-> Some("now")]

\* what the run did with the event at position at of the list
Outcome(at, kind, fetched, page, probe, entry) ==
    [at |-> at, kind |-> kind, fetched |-> fetched, soup |-> page, probe |-> probe,
     entry |-> entry]

(***************************************************************************)
(* Inputs of a verification run                                            *)
(***************************************************************************)
EvA == [NoEvent EXCEPT !.titre = <<"a","b">>, !.URL = <<"h","t","t","p",":","/","/","a">>]
EvB == [NoEvent EXCEPT !.titre = <<"a","b">>, !.prix = <<"G","r","a","t","u","i","t">>, !.image = <<"h","t","t","p",":","/","/","i">>,
                       !.URL = <<"h","t","t","p",":","/","/","b">>]
\* "URL" is absent or is the empty string
EvNoURL == [NoEvent EXCEPT !.titre = <<"a","b">>]
EvBlankURL == [NoEvent EXCEPT !.titre = <<"a","b">>, !.URL = <<" ">>]
EventSamples == {EvA, EvB, EvNoURL, EvBlankURL}

MaxEvents == 2
EventLists == UNION {[1..n -> EventSamples] : n \in 0..MaxEvents}

\* the file given as --input: absent, a bare array, an object holding the
\* array under a key, one flat event, or some other JSON value; or --url
Inputs ==
    {[kind |-> "array", key |-> "", events |-> l] : l \in EventLists}
    \cup {[kind |-> "object", key |-> k, events |-> <<e>>] :
            k \in KNOWN_KEYS \cup {"autre"}, e \in EventSamples}
    \cup {[kind |-> "event", key |-> "", events |-> <<e>>] : e \in EventSamples}
    \cup {[kind |-> k, key |-> "", events |-> <<>>] : k \in {"missing", "scalar"}}
    \cup {[kind |-> "url", key |-> "",
           events |-> <<[NoEvent EXCEPT !.titre = <<"?">>, !.URL = <<"h","t","t","p",":","/","/","a">>]>>]}
LimitInputs == {0, 1}

SoupA == [NoSoup EXCEPT !.titre = <<"a","b">>, !.rest = <<"a","b"," ","g","r","a","t","u","i","t">>]
SoupB == [NoSoup EXCEPT !.titre = <<"z","z">>, !.rest = <<"z","z"," ","5"," ","$">>]
SoupNoBody == [NoSoup EXCEPT !.body = FALSE]
Soups == {SoupA, SoupB, SoupNoBody}

\* the answers a GET of the page and a HEAD of the image can have
Answers == {Response(200), Response(404), Response(410), Response(500), Failure}
Probes == {Response(200), Response(404), Failure}

\* main: arguments parsed, events loaded and truncated to --limit
Load ==
    /\ pc = "start"
    /\ LET loaded == IF input.kind = "url" THEN [exc |-> "", events |-> input.events]
                     ELSE load_events(input)
       IN  IF loaded.exc # ""
           THEN /\ pc' = "exit"
                /\ exit_code' = Some(1)
                /\ UNCHANGED <<events, i>>
           ELSE /\ events' = IF limit # 0 THEN Take(loaded.events, limit) ELSE loaded.events
                /\ i' = 1
                /\ pc' = "loop"
                /\ UNCHANGED exit_code
    /\ UNCHANGED <<input, limit, ok_count, skip_count, errors_found, attempt, gets, sleeps,
                   soup, outcomes, report, chkVars, storeVars, srcVars>>

\* main: if not url: skip_count += 1; continue
Skip ==
    /\ pc = "loop" /\ i <= Len(events)
    /\ events[i].URL = <<>>
    /\ skip_count' = skip_count + 1
    /\ outcomes' = Append(outcomes, Outcome(i, "skipped", FALSE, None, None, 0))
    /\ i' = i + 1
    /\ UNCHANGED <<input, limit, events, pc, ok_count, errors_found, attempt, gets, sleeps,
                   soup, report, exit_code, chkVars, storeVars, srcVars>>

\* verify_event: the URL is blank once stripped
MissingURL ==
    /\ pc = "loop" /\ i <= Len(events)
    /\ events[i].URL # <<>> /\ Strip(events[i].URL) = <<>>
    /\ errors_found' = Append(errors_found, MissingEntry(events[i]))
    /\ outcomes' = Append(outcomes, Outcome(i, "reported", FALSE, None, None,
                                            Len(errors_found) + 1))
    /\ i' = i + 1
    /\ UNCHANGED <<input, limit, events, pc, ok_count, skip_count, attempt, gets, sleeps,
                   soup, report, exit_code, chkVars, storeVars, srcVars>>

\* verify_event calls fetch(url)
StartFetch ==
    /\ pc = "loop" /\ i <= Len(events)
    /\ Strip(events[i].URL) # <<>>
    /\ pc' = "fetch"
    /\ attempt' = 0 /\ gets' = <<>> /\ sleeps' = <<>>
    /\ UNCHANGED <<input, limit, events, i, ok_count, skip_count, errors_found, soup,
                   outcomes, report, exit_code, chkVars, storeVars, srcVars>>

\* fetch: one turn of the loop, the GET and the handling of its answer
Get ==
    /\ pc = "fetch" /\ attempt < RETRIES
    /\ \E answer \in Answers :
         /\ gets' = Append(gets, answer)
         /\ IF ~answer.exc /\ ~RaisesHTTPError(answer)
            THEN /\ \E s \in Soups : soup' = Some(s)
                 /\ pc' = "page"
                 /\ UNCHANGED <<attempt, sleeps>>
            ELSE IF ~answer.exc /\ HTTPErrorCode(answer) \in DEAD_CODES
            THEN /\ pc' = "unreachable"
                 /\ UNCHANGED <<attempt, sleeps, soup>>
            ELSE /\ sleeps' = Append(sleeps, Pow2(attempt))
                 /\ attempt' = attempt + 1
                 /\ pc' = IF attempt + 1 < RETRIES THEN "fetch" ELSE "unreachable"
                 /\ UNCHANGED soup
    /\ UNCHANGED <<input, limit, events, i, ok_count, skip_count, errors_found,
                   outcomes, report, exit_code, chkVars, storeVars, srcVars>>

\* the same step leaving the loop: the events that follow are not processed
Unreachable_Break ==
    /\ pc = "unreachable"
    /\ errors_found' = Append(errors_found, UnreachableEntry(events[i], Strip(events[i].URL)))
    /\ outcomes' = Append(outcomes, Outcome(i, "reported", TRUE, None, None,
                                            Len(errors_found) + 1))
    /\ i' = Len(events) + 1 /\ pc' = "loop"
    /\ attempt' = 0 /\ gets' = <<>> /\ sleeps' = <<>>
    /\ UNCHANGED <<input, limit, events, ok_count, skip_count, soup, report, exit_code,
                   chkVars, storeVars, srcVars>>

\* verify_event: soup is None; main appends the entry
Unreachable ==
    /\ pc = "unreachable"
    /\ errors_found' = Append(errors_found, UnreachableEntry(events[i], Strip(events[i].URL)))
    /\ outcomes' = Append(outcomes, Outcome(i, "reported", TRUE, None, None,
                                            Len(errors_found) + 1))
    /\ i' = i + 1 /\ pc' = "loop"
    /\ attempt' = 0 /\ gets' = <<>> /\ sleeps' = <<>>
    /\ UNCHANGED <<input, limit, events, ok_count, skip_count, soup, report, exit_code,
                   chkVars, storeVars, srcVars>>

\* verify_event: the page is compared; main counts the event ok or appends
\* the entry
Compare ==
    /\ pc = "page"
    /\ \E probe \in Probes :
         \E errors \in {FieldErrors(events[i], soup[1], probe)} :
             /\ IF errors = <<>>
                THEN /\ ok_count' = ok_count + 1
                     /\ UNCHANGED errors_found
                ELSE /\ errors_found' = Append(errors_found, FlaggedEntry(events[i], errors))
                     /\ UNCHANGED ok_count
             /\ outcomes' = Append(outcomes,
                                Outcome(i, IF errors = <<>> THEN "ok" ELSE "reported", TRUE,
                                        soup, Some(probe),
                                        IF errors = <<>> THEN 0 ELSE Len(errors_found) + 1))
    /\ i' = i + 1 /\ pc' = "loop"
    /\ soup' = None /\ attempt' = 0 /\ gets' = <<>> /\ sleeps' = <<>>
    /\ UNCHANGED <<input, limit, events, skip_count, report, exit_code, chkVars, storeVars, srcVars>>

\* main: the loop is over, the report is written and main returns
WriteReport ==
    /\ pc = "loop" /\ i > Len(events)
    /\ report' = Some([total_checked |-> Len(events),
                       errors_count  |-> Len(errors_found),
                       errors        |-> errors_found])
    /\ pc' = "done"
    /\ exit_code' = Some(0)
    /\ UNCHANGED <<input, limit, events, i, ok_count, skip_count, errors_found, attempt,
                   gets, sleeps, soup, outcomes, chkVars, storeVars, srcVars>>

Init ==
    /\ input \in Inputs
    /\ limit \in LimitInputs
    /\ events = <<>> /\ pc = "start" /\ i = 0
    /\ ok_count = 0 /\ skip_count = 0 /\ errors_found = <<>>
    /\ attempt = 0 /\ gets = <<>> /\ sleeps = <<>> /\ soup = None
    /\ outcomes = <<>> /\ report = None /\ exit_code = None
    /\ ChkIdle /\ StoreIdle /\ SrcIdle

Next ==
    \/ Load
    \/ Skip
    \/ MissingURL
    \/ StartFetch
    \/ Get
    \/ Unreachable
    \/ Compare
    \/ WriteReport

Spec == Init /\ [][Next]_vars

(***************************************************************************)
(* Properties of a verification run                                        *)
(***************************************************************************)
DeadAnswer(r) == ~r.exc /\ r.status \in {404, 410}
Kinds(kind) == {k \in 1..Len(outcomes) : outcomes[k].kind = kind}
InRun == pc \in {"loop", "fetch", "page", "unreachable"}

\* C1: a GET answered with 404 or 410 is the last GET issued for its URL, no
\* backoff sleep follows it, and fetch has returned None so that the event is
\* about to be reported unreachable.
C1_DeadLinkNotRetried ==
    \A k \in 1..Len(gets) :
        DeadAnswer(gets[k]) =>
            /\ Len(gets) = k
            /\ Len(sleeps) < k
            /\ pc = "unreachable"

\* C4: an event whose stored URL is missing or empty is skipped without any
\* fetch, and the written report holds an entry for that event with the
\* error 'URL manquante'.
C4_MissingURLSkippedAndReported ==
    \A k \in 1..Len(outcomes) :
        events[k].URL = <<>> =>
            /\ outcomes[k].kind = "skipped"
            /\ ~outcomes[k].fetched
            /\ report # None =>
                 \E n \in 1..Len(report[1].errors) :
                     /\ report[1].errors[n].event = events[k]
                     /\ \E e \in 1..Len(report[1].errors[n].errors) :
                          report[1].errors[n].errors[e].issue = "URL manquante"

\* the run can take a step: the page is about to be compared, or another
\* step of main or fetch is enabled
CanStep ==
    \/ pc = "page" /\ soup # None /\ i \in 1..Len(events)
    \/ ENABLED (Skip \/ MissingURL \/ StartFetch \/ Get \/ Unreachable \/ WriteReport)

\* C5: the run gives the events of the limit-truncated input list one
\* outcome each, in input order; no outcome stops the run before the report
\* is written; and in the end ok_count + report entries + skip_count is
\* total_checked, the length of the list.
C5_EveryEventOneOutcome ==
    /\ \A k \in 1..Len(outcomes) :
         outcomes[k].at = k /\ outcomes[k].kind \in {"ok", "reported", "skipped"}
    /\ ok_count = Cardinality(Kinds("ok"))
    /\ skip_count = Cardinality(Kinds("skipped"))
    /\ Len(errors_found) = Cardinality(Kinds("reported"))
    /\ InRun => Len(outcomes) = i - 1 /\ CanStep
    /\ pc \in {"loop", "done"} => events = IF limit # 0 THEN Take(input.events, limit)
                                                        ELSE input.events
    /\ pc = "done" =>
         /\ Len(outcomes) = Len(events)
         /\ report[1].total_checked = Len(events)
         /\ ok_count + Len(report[1].errors) + skip_count = report[1].total_checked

\* a finished run whose first event was unreachable and whose second is ok
C5_Witness ==
    /\ pc = "done" /\ Len(outcomes) >= 2
    /\ outcomes[1].kind = "reported" /\ outcomes[1].fetched /\ outcomes[1].soup = None
    /\ outcomes[2].kind = "ok"

\* the errors of the six field checks on a fetched page
CheckErrors(ev, s, probe) ==
    LET page == extract_page_data(s)
        all  == <<TitleCheck(ev.titre, page.titre),
                  DateCheck(ev.date, page.date_str, page.full_text),
                  PriceCheck(ev.prix, page),
                  LieuCheck(ev.lieu, page.lieu),
                  DescCheck(ev.description, page.description, page.full_text),
                  ImageCheck(ev.image, probe)>>
    IN  UNION {{all[c][n] : n \in 1..Len(all[c])} : c \in 1..6}

\* C6: for an event whose page was fetched, there is a report entry iff a
\* field check gave an error: without error the event is counted ok and has
\* no entry; otherwise it has exactly one entry, with all its field errors.
C6_EntryIffFieldError ==
    /\ \A k \in 1..Len(outcomes) :
         outcomes[k].soup # None =>
           \A found \in {CheckErrors(events[k], outcomes[k].soup[1], outcomes[k].probe[1])} :
             /\ found = {} => outcomes[k].kind = "ok" /\ outcomes[k].entry = 0
             /\ found # {} =>
                  /\ outcomes[k].kind = "reported"
                  /\ outcomes[k].entry \in 1..Len(errors_found)
                  /\ \A entry \in {errors_found[outcomes[k].entry]} :
                       /\ entry.event = events[k]
                       /\ entry.url_status = "ok"
                       /\ {entry.errors[n] : n \in 1..Len(entry.errors)} = found
                       /\ Len(entry.errors) = Cardinality(found)
    /\ \A j, k \in Kinds("reported") : outcomes[j].entry = outcomes[k].entry => j = k
    /\ Len(errors_found) = Cardinality(Kinds("reported"))
    /\ ok_count = Cardinality(Kinds("ok"))
    /\ report # None => report[1].errors = errors_found

\* a written report with the entry of a fetched event that has two field
\* errors or more, after a fetched event without error
C6_Witness ==
    /\ report # None
    /\ \E j, k \in 1..Len(outcomes) :
         /\ outcomes[j].soup # None /\ outcomes[j].kind = "ok"
         /\ outcomes[k].soup # None /\ outcomes[k].kind = "reported"
         /\ Len(report[1].errors[outcomes[k].entry].errors) >= 2

(***************************************************************************)
(* The shared store evenements.json and the source scripts' final step     *)
(***************************************************************************)
Sources == {"MNBAQ", "BDQ", "MCQ", "Moulin", "Gestev"}

BASE_URL(source) ==
    CASE source = "MNBAQ"  -> <<"h","t","t","p","s",":","/","/","w","w","w",".","m","n","b","a","q",".","o","r","g">>
      [] source = "BDQ"    -> <<"h","t","t","p","s",":","/","/","w","w","w",".","b","i","b","l","i","o","t","h","e","q","u","e","d","e","q","u","e","b","e","c",".","q","c",".","c","a">>
      [] source = "MCQ"    -> <<"h","t","t","p","s",":","/","/","m","c","q",".","o","r","g">>
      [] source = "Moulin" -> <<"h","t","t","p","s",":","/","/","w","w","w",".","m","o","u","l","i","n","d","e","s","j","e","s","u","i","t","e","s",".","o","r","g">>
      [] source = "Gestev" -> <<"h","t","t","p","s",":","/","/","w","w","w",".","g","e","s","t","e","v",".","c","o","m">>

\* the text a script looks for in "URL" to recognise its own records
FRAGMENT(source) ==
    CASE source = "BDQ"    -> <<"b","i","b","l","i","o","t","h","e","q","u","e","d","e","q","u","e","b","e","c">>
      [] source = "MCQ"    -> <<"m","c","q",".","o","r","g">>
      [] source = "Moulin" -> <<"m","o","u","l","i","n","d","e","s","j","e","s","u","i","t","e","s">>
      [] source = "Gestev" -> <<"g","e","s","t","e","v",".","c","o","m">>

\* the path of a detail page of each site, as its listing links it
DetailPath(source) ==
    CASE source = "MNBAQ"  -> <<"/","p","r","o","g","r","a","m","m","a","t","i","o","n","/","f","a","m","i","l","l","e","s","/">>
      [] source = "BDQ"    -> <<"/","a","c","t","i","v","i","t","e","s","/","1","/">>
      [] source = "MCQ"    -> <<"/","d","e","c","o","u","v","r","i","r","/","a","c","t","i","v","i","t","e","s","/">>
      [] source = "Moulin" -> <<"/","a","c","t","i","v","i","t","e","/">>
      [] source = "Gestev" -> <<"/","c","a","l","e","n","d","r","i","e","r","-","e","v","e","n","e","m","e","n","t","s","/">>

\* urljoin(BASE_URL, href) for a site-relative href
urljoin(base, href) == base \o href

\* existing = json.load(...), [] when the file is absent
ReadStore(st) == IF st.exists THEN st.records ELSE <<>>

\* the merge without its filter: the fresh records are appended to the store
Merge_NoFilter(st, fragment, results) ==
    [exists |-> TRUE, records |-> ReadStore(st) \o results]

\* a merge that leaves the store as it is when the batch is empty
Merge_KeepOnEmpty(st, fragment, results) ==
    [exists  |-> TRUE,
     records |-> IF results = <<>> THEN ReadStore(st)
                 ELSE SelectSeq(ReadStore(st), LAMBDA e : ~IsSubstring(fragment, e.URL))
                      \o results]

\* the merge: drop the records of the source, append the fresh ones, write
Merge(st, fragment, results) ==
    [exists  |-> TRUE,
     records |-> SelectSeq(ReadStore(st), LAMBDA e : ~IsSubstring(fragment, e.URL))
                 \o results]

\* the MNBAQ script writes its results alone
Overwrite(st, results) == [exists |-> TRUE, records |-> results]

(***************************************************************************)
(* Inputs: the batches main() can return                                   *)
(***************************************************************************)
MaxBatch == 2
MaxRuns == 3
Slugs == {<<"a">>, <<"b">>}

Records(source) ==
    {[URL |-> urljoin(BASE_URL(source), DetailPath(source) \o slug), titre |-> slug] :
       slug \in Slugs}

\* main() keeps one record for each URL
Batches(source) ==
    {b \in UNION {[1..n -> Records(source)] : n \in 0..MaxBatch} :
       \A j, k \in 1..Len(b) : b[j].URL = b[k].URL => j = k}

Run(source, batch, completed) ==
    [source |-> source, batch |-> batch, before |-> ReadStore(store), completed |-> completed]

\* python scraper_mnbaq.py: main() leaves with sys.exit(1) when the first
\* listing page cannot be fetched, otherwise its results are written
RunMNBAQ ==
    /\ Len(runs) < MaxRuns
    /\ \/ /\ runs' = Append(runs, Run("MNBAQ", <<>>, FALSE))
          /\ UNCHANGED store
       \/ \E results \in Batches("MNBAQ") :
            /\ store' = Overwrite(store, results)
            /\ runs' = Append(runs, Run("MNBAQ", results, TRUE))
    /\ UNCHANGED <<chkVars, runVars, srcVars>>

RunBDQ ==
    /\ Len(runs) < MaxRuns
    /\ \E results \in Batches("BDQ") :
         /\ store' = Merge(store, FRAGMENT("BDQ"), results)
         /\ runs' = Append(runs, Run("BDQ", results, TRUE))
    /\ UNCHANGED <<chkVars, runVars, srcVars>>

RunMCQ ==
    /\ Len(runs) < MaxRuns
    /\ \E results \in Batches("MCQ") :
         /\ store' = Merge(store, FRAGMENT("MCQ"), results)
         /\ runs' = Append(runs, Run("MCQ", results, TRUE))
    /\ UNCHANGED <<chkVars, runVars, srcVars>>

RunMoulin ==
    /\ Len(runs) < MaxRuns
    /\ \E results \in Batches("Moulin") :
         /\ store' = Merge(store, FRAGMENT("Moulin"), results)
         /\ runs' = Append(runs, Run("Moulin", results, TRUE))
    /\ UNCHANGED <<chkVars, runVars, srcVars>>

RunGestev ==
    /\ Len(runs) < MaxRuns
    /\ \E results \in Batches("Gestev") :
         /\ store' = Merge(store, FRAGMENT("Gestev"), results)
         /\ runs' = Append(runs, Run("Gestev", results, TRUE))
    /\ UNCHANGED <<chkVars, runVars, srcVars>>

InitStore == ChkIdle /\ RunIdle /\ StoreIdle /\ SrcIdle

NextStore == RunMNBAQ \/ RunBDQ \/ RunMCQ \/ RunMoulin \/ RunGestev

SpecStore == InitStore /\ [][NextStore]_vars

(***************************************************************************)
(* Properties of the store                                                 *)
(***************************************************************************)
\* the domain that tells the records of a source
SourceDomain(source) ==
    CASE source = "MNBAQ"  -> <<"m","n","b","a","q",".","o","r","g">>
      [] source = "BDQ"    -> <<"b","i","b","l","i","o","t","h","e","q","u","e","d","e","q","u","e","b","e","c",".","q","c",".","c","a">>
      [] source = "MCQ"    -> <<"m","c","q",".","o","r","g">>
      [] source = "Moulin" -> <<"m","o","u","l","i","n","d","e","s","j","e","s","u","i","t","e","s",".","o","r","g">>
      [] source = "Gestev" -> <<"g","e","s","t","e","v",".","c","o","m">>

Of(source, records) ==
    SelectSeq(records, LAMBDA e : IsSubstring(SourceDomain(source), e.URL))
NotOf(source, records) ==
    SelectSeq(records, LAMBDA e : ~IsSubstring(SourceDomain(source), e.URL))

LastRun == runs[Len(runs)]
Completed == runs # <<>> /\ LastRun.completed

\* C2: a completed run of source S leaves the stored records of the other
\* sources present and unchanged.
C2_OtherSourcesUntouched ==
    Completed => NotOf(LastRun.source, store.records) = NotOf(LastRun.source, LastRun.before)

\* C3: after a completed run of source S, the stored records of S are the
\* records main() returned; and a second run of S with the same results
\* leaves the store as the first run left it.
C3_SourceSliceIsBatch ==
    Completed =>
        /\ Of(LastRun.source, store.records) = LastRun.batch
        /\ (/\ Len(runs) >= 2
            /\ runs[Len(runs) - 1].completed
            /\ runs[Len(runs) - 1].source = LastRun.source
            /\ runs[Len(runs) - 1].batch = LastRun.batch)
           => store.records = LastRun.before

\* Moulin run with new results over a store holding older Moulin records and
\* the records of another source
C3_Witness ==
    /\ Completed /\ LastRun.source = "Moulin" /\ LastRun.batch # <<>>
    /\ Of("Moulin", LastRun.before) # <<>>
    /\ Of("Moulin", LastRun.before) # LastRun.batch
    /\ NotOf("Moulin", LastRun.before) # <<>>

(***************************************************************************)
(* The retry loop of detectivent.fetch                                     *)
(***************************************************************************)
\* each turn of fetch's loop ends: requests.get has a timeout and the sleep
\* is finite, so a fetch that can take a turn does take it
SpecFetch == Spec /\ WF_vars(Get)

\* the GET failed and the answer is not a 404 or a 410
OtherFailure(r) == (r.exc \/ RaisesHTTPError(r)) /\ ~DeadAnswer(r)
BACKOFF == <<1, 2, 4>>

\* the step of verify_event and main after fetch returned None
EndsUnreachable ==
    (pc = "unreachable" /\ pc' # "unreachable") =>
        /\ Len(errors_found') = Len(errors_found) + 1
        /\ \A entry \in {errors_found'[Len(errors_found')]} :
             /\ entry.event = events[i]
             /\ entry.url_status = "unreachable"
             /\ Len(entry.errors) = 1
             /\ entry.errors[1].field = "URL"
        /\ ok_count' = ok_count
        /\ outcomes'[Len(outcomes')].soup = None
        /\ outcomes'[Len(outcomes')].probe = None

\* C11: while the GETs of a URL fail otherwise than by 404/410, fetch issues
\* at most 3 of them, sleeps 1 s, 2 s, 4 s after them, and after the third
\* has returned None; the event then gets one entry, unreachable, with one
\* URL error and no field comparison; and every fetch ends.
C11_RetriesBoundedThenUnreachable ==
    /\ [](/\ Len(gets) <= 3
          /\ (\A k \in 1..Len(gets) : OtherFailure(gets[k])) =>
               /\ sleeps = SubSeq(BACKOFF, 1, Len(gets))
               /\ Len(gets) = 3 => pc = "unreachable" /\ soup = None
               /\ Len(gets) \in 1..2 => pc = "fetch")
    /\ [][EndsUnreachable]_vars
    /\ (pc = "fetch" ~> pc # "fetch")

\* three GETs failed, by a 500 and by connection failures, and fetch has
\* returned None after sleeps of 1, 2 and 4 s
C11_Witness ==
    /\ pc = "unreachable" /\ Len(gets) = 3
    /\ gets[1] = Response(500) /\ gets[2] = Failure /\ gets[3] = Failure
    /\ sleeps = <<1, 2, 4>>

(***************************************************************************)
(* The fetch helpers of the source modules                                 *)
(***************************************************************************)
\* the statuses on which the helper returns None without retrying:
\* scraper_gestev.fetch tests e.response.status_code in (403, 404, 410); the
\* helpers of the other modules have the single clause
\* except requests.RequestException, which HTTPError is a subclass of
HARD_CODES(source) == IF source = "Gestev" THEN {403, 404, 410} ELSE {}

\* the turns of the helper's loop from turn attempt on: answers[k] is the
\* answer of the server to the k-th GET
RECURSIVE FetchLoop(_, _, _, _, _)
FetchLoop(source, answers, turn, got, slept) ==
    IF turn >= RETRIES
    THEN [soup |-> None, gets |-> got, sleeps |-> slept]
    ELSE LET r == answers[turn + 1]
         IN  IF ~r.exc /\ ~RaisesHTTPError(r)
             THEN [soup |-> Some("page"), gets |-> Append(got, r), sleeps |-> slept]
             ELSE IF ~r.exc /\ r.status \in HARD_CODES(source)
             THEN [soup |-> None, gets |-> Append(got, r), sleeps |-> slept]
             ELSE FetchLoop(source, answers, turn + 1, Append(got, r),
                            Append(slept, Pow2(turn)))

\* fetch of scraper_bdq, scraper_mcq, scraper_moulin and scraper_gestev
fetch(source, answers) == FetchLoop(source, answers, 0, <<>>, <<>>)
\* fetch_page of scraper_mnbaq
fetch_page(answers) == FetchLoop("MNBAQ", answers, 0, <<>>, <<>>)

HelperAnswers == {Response(200), Response(403), Response(404), Response(410),
                  Response(500), Failure}
AnswerSeqs == [1..RETRIES -> HelperAnswers]
FetchCall(source, answers) ==
    [fn |-> "fetch", done |-> FALSE, source |-> source, answers |-> answers]

InitHelpers ==
    /\ \E source \in Sources, answers \in AnswerSeqs : call = FetchCall(source, answers)
    /\ ChkIdle /\ RunIdle /\ StoreIdle /\ MainIdle

FetchPageMNBAQ ==
    /\ call.fn = "fetch" /\ ~call.done /\ call.source = "MNBAQ"
    /\ call' = [fn |-> "fetch", done |-> TRUE, source |-> call.source,
                answers |-> call.answers, out |-> fetch_page(call.answers)]
    /\ UNCHANGED <<chkVars, runVars, storeVars, mainVars>>

FetchOf(source) ==
    /\ call.fn = "fetch" /\ ~call.done /\ call.source = source
    /\ call' = [fn |-> "fetch", done |-> TRUE, source |-> call.source,
                answers |-> call.answers, out |-> fetch(source, call.answers)]
    /\ UNCHANGED <<chkVars, runVars, storeVars, mainVars>>

FetchBDQ == FetchOf("BDQ")
FetchMCQ == FetchOf("MCQ")
FetchMoulin == FetchOf("Moulin")
FetchGestev == FetchOf("Gestev")

NextHelpers == FetchPageMNBAQ \/ FetchBDQ \/ FetchMCQ \/ FetchMoulin \/ FetchGestev

SpecHelpers == InitHelpers /\ [][NextHelpers]_vars

PermanentFailure(r) == ~r.exc /\ r.status \in {403, 404, 410}

\* C12: in every source module, a call of the fetch helper whose first GET
\* is answered with 403, 404 or 410 returns None after that single GET,
\* without a backoff sleep.
C12_PermanentFailureNotRetried ==
    (call.fn = "fetch" /\ call.done /\ PermanentFailure(call.answers[1])) =>
        /\ call.out.soup = None
        /\ Len(call.out.gets) = 1
        /\ call.out.sleeps = <<>>

(***************************************************************************)
(* The listing parsers of the source modules                               *)
(***************************************************************************)
\* \w and the class [\w-] of the link patterns
IsWord(c) == IsLetter(c) \/ c \in Digits \/ c = "_"
IsSlugChar(c) == IsWord(c) \/ c = "-"

\* the 0-based indexes at which lit occurs in s
Occurrences(lit, s) ==
    {p \in 0..(Len(s) - Len(lit)) : \A k \in 1..Len(lit) : s[p + k] = lit[k]}

\* s.split("?")[0]
BeforeQuery(s) ==
    IF \E k \in 1..Len(s) : s[k] = "?"
    THEN SubSeq(s, 1, Min({k \in 1..Len(s) : s[k] = "?"}) - 1)
    ELSE s

\* s.rstrip("/")
RStripSlash(s) ==
    IF \E k \in 1..Len(s) : s[k] # "/"
    THEN SubSeq(s, 1, Max({k \in 1..Len(s) : s[k] # "/"}))
    ELSE <<>>

\* s.strip("/")
StripSlash(s) ==
    IF \E k \in 1..Len(s) : s[k] # "/"
    THEN SubSeq(s, Min({k \in 1..Len(s) : s[k] # "/"}), Max({k \in 1..Len(s) : s[k] # "/"}))
    ELSE <<>>

\* whether s ends with /\d{4}-\d{2}-\d{2}/
DATE_SUFFIX_LEN == 12
EndsWithDate(s) ==
    /\ Len(s) >= DATE_SUFFIX_LEN
    /\ \A k \in 1..DATE_SUFFIX_LEN :
         \A c \in {s[Len(s) - DATE_SUFFIX_LEN + k]} :
            IF k \in {1, 12} THEN c = "/"
            ELSE IF k \in {6, 9} THEN c = "-"
            ELSE c \in Digits

\* re.sub(r"/\d{4}-\d{2}-\d{2}/$", "/", s)
DropDateSuffix(s) ==
    IF EndsWithDate(s) THEN SubSeq(s, 1, Len(s) - DATE_SUFFIX_LEN + 1) ELSE s

\* re.search(lit + r"\d+/", s)
SearchDigitsSlash(lit, s) ==
    \E p \in Occurrences(lit, s) :
        \E n \in {ClassRun(s, p + Len(lit), "digit", ANY)} :
            /\ n >= 1
            /\ \E m \in 1..n : p + Len(lit) + m < Len(s) /\ s[p + Len(lit) + m + 1] = "/"

\* number of consecutive characters of [\w-] from the 0-based index p on
RECURSIVE SlugRun(_, _)
SlugRun(s, p) == IF p < Len(s) /\ IsSlugChar(s[p + 1]) THEN 1 + SlugRun(s, p + 1) ELSE 0

\* re.search(lit + r"[\w-]+", s)
SearchSlug(lit, s) == \E p \in Occurrences(lit, s) : SlugRun(s, p + Len(lit)) >= 1

\* re.search(lit + r"[\w-]+/?$", s)
SearchSlugAtEnd(lit, s) ==
    \E p \in Occurrences(lit, s) :
        \E n \in {SlugRun(s, p + Len(lit))} :
            /\ n >= 1
            /\ \/ p + Len(lit) + n = Len(s)
               \/ p + Len(lit) + n = Len(s) - 1 /\ s[Len(s)] = "/"

\* a link of a listing page: its href and the title its card shows (for MNBAQ
\* the link text is 'En savoir plus sur' followed by the title)
\* date_str is the date text the card shows, empty when it shows none
Link(href, titre, date_str) == [href |-> href, titre |-> titre, date_str |-> date_str]
Card(url, titre, date_str) == [url |-> url, titre |-> titre, date_str |-> date_str]

FAMILY_PATHS ==
    {<<"/","p","r","o","g","r","a","m","m","a","t","i","o","n","/","f","a","m","i","l","l","e","s">>, <<"/","p","r","o","g","r","a","m","m","a","t","i","o","n","/","a","t","e","l","i","e","r","s","-","e","t","-","c","o","u","r","s">>,
     <<"/","p","r","o","g","r","a","m","m","a","t","i","o","n","/","e","v","e","n","e","m","e","n","t","s","-","s","p","e","c","i","a","u","x">>, <<"/","p","r","o","g","r","a","m","m","a","t","i","o","n","/","v","i","s","i","t","e","s","-","g","u","i","d","e","e","s">>,
     <<"/","p","r","o","g","r","a","m","m","a","t","i","o","n","/","m","u","s","i","q","u","e","-","e","t","-","c","o","n","c","e","r","t","s">>, <<"/","p","r","o","g","r","a","m","m","a","t","i","o","n","/","e","x","p","o","s","i","t","i","o","n","s">>,
     <<"/","p","r","o","g","r","a","m","m","a","t","i","o","n","/","a","r","t","s","-","e","t","-","m","i","e","u","x","-","e","t","r","e">>}
CTA_WORDS ==
    {<<"b","i","l","l","e","t","s">>, <<"a","c","h","e","t","e","r">>, <<"b","u","y">>, <<"t","i","c","k","e","t","s">>, <<"r","é","s","e","r","v","e","r">>,
     <<"c","o","m","m","a","n","d","e","r">>, <<"v","o","i","r">>, <<"m","o","r","e">>, <<"d","e","t","a","i","l","s">>}
EVENTS_PATH == <<"/","c","a","l","e","n","d","r","i","e","r","-","e","v","e","n","e","m","e","n","t","s","/">>
MIN_TITLE_LEN == 3

\* scraper_gestev.parse_listing.is_detail_href
is_detail_href(href) ==
    /\ href # <<>>
    /\ IsSubstring(EVENTS_PATH, href)
    /\ \E clean \in {RStripSlash(BeforeQuery(href))} :
         IF Occurrences(EVENTS_PATH, clean) = {}
         THEN StripSlash(clean) # <<>>
         ELSE StripSlash(SubSeq(clean, Max(Occurrences(EVENTS_PATH, clean))
                                       + Len(EVENTS_PATH) + 1, Len(clean))) # <<>>

\* the links the parser of the source looks at
IsDetailLink(source, a) ==
    CASE source = "MNBAQ"  -> IsSubstring(<<"/","p","r","o","g","r","a","m","m","a","t","i","o","n","/">>, a.href)
      [] source = "BDQ"    -> SearchDigitsSlash(<<"/","a","c","t","i","v","i","t","e","s","/">>, a.href)
      [] source = "MCQ"    -> SearchSlugAtEnd(<<"/","d","e","c","o","u","v","r","i","r","/","a","c","t","i","v","i","t","e","s","/">>, a.href)
      [] source = "Moulin" -> SearchSlug(<<"/","a","c","t","i","v","i","t","e","/">>, a.href) /\ a.titre # <<>>
      [] source = "Gestev" -> /\ is_detail_href(a.href)
                              /\ Lower(Strip(a.titre)) \notin CTA_WORDS
                              /\ Len(a.titre) >= MIN_TITLE_LEN

\* full_url
FullURL(source, href) ==
    CASE source = "MCQ"    -> RStripSlash(urljoin(BASE_URL(source), href)) \o <<"/">>
      [] source = "Gestev" ->
           RStripSlash(BeforeQuery(urljoin(BASE_URL(source), href))) \o <<"/">>
      [] OTHER             -> urljoin(BASE_URL(source), href)

\* what the parser puts in its seen set: full_url, or for the Moulin the URL
\* without date suffix
SeenKey(source, full_url) ==
    IF source = "Moulin" THEN RStripSlash(DropDateSuffix(full_url)) \o <<"/">>
    ELSE full_url

\* the tests made once the URL is in the seen set
KeepsCard(source, a, full_url) ==
    CASE source = "MNBAQ"  -> \E p \in FAMILY_PATHS : IsSubstring(p, full_url)
      [] source = "BDQ"    -> a.titre # <<>>
      [] source = "MCQ"    -> Len(a.titre) >= MIN_TITLE_LEN
      [] source = "Moulin" -> TRUE
      [] source = "Gestev" -> Len(a.titre) >= MIN_TITLE_LEN

RECURSIVE ParseLinks(_, _, _, _)
ParseLinks(source, links, seen, cards) ==
    IF links = <<>> THEN cards
    ELSE IF ~IsDetailLink(source, Head(links))
    THEN ParseLinks(source, Tail(links), seen, cards)
    ELSE LET full_url == FullURL(source, Head(links).href)
         IN  IF \/ SeenKey(source, full_url) \in seen
                \/ source = "Gestev" /\ full_url = BASE_URL(source) \o <<"/">>
             THEN ParseLinks(source, Tail(links), seen, cards)
             ELSE ParseLinks(source, Tail(links), seen \cup {SeenKey(source, full_url)},
                             IF KeepsCard(source, Head(links), full_url)
                             THEN Append(cards, Card(full_url, Head(links).titre,
                                                     Head(links).date_str))
                             ELSE cards)

\* parse_listing(soup) of the source (parse_listing_page for MNBAQ): the
\* cards of the links of the page, in page order
parse_listing(source, links) == ParseLinks(source, links, {}, <<>>)

\* the first card of each key, in order: main's seen / unique loop
RECURSIVE UniqueBy(_, _, _, _)
UniqueBy(field, cards, seen, unique) ==
    IF cards = <<>> THEN unique
    ELSE IF Head(cards)[field] \in seen
    THEN UniqueBy(field, Tail(cards), seen, unique)
    ELSE UniqueBy(field, Tail(cards), seen \cup {Head(cards)[field]},
                  Append(unique, Head(cards)))

\* main: the deduplication of the cards collected from the listing
Deduplicate(source, cards) ==
    CASE source = "BDQ"    -> cards
      [] source = "Moulin" -> UniqueBy("titre", cards, {}, <<>>)
      [] OTHER             -> UniqueBy("url", cards, {}, <<>>)

(***************************************************************************)
(* The date window of the source modules                                   *)
(***************************************************************************)
\* today is the year and month of date.today() when the module is loaded
NextMonth(today) == (today.month % 12) + 1
\* a next year that never changes
NextYear_Same(today) == today.year

NextYear(today) == today.year + (today.month \div 12)
DATE_MIN(today) == [year |-> today.year, month |-> today.month, day |-> 1]
\* [31, 28 + (_ny % 4 == 0 and (_ny % 100 != 0 or _ny % 400 == 0)), 31, ...]
LAST_DAYS(ny) ==
    <<31, 28 + (IF ny % 4 = 0 /\ (ny % 100 # 0 \/ ny % 400 = 0) THEN 1 ELSE 0),
      31, 30, 31, 30, 31, 31, 30, 31, 30, 31>>
DATE_MAX(today) ==
    [year |-> NextYear(today), month |-> NextMonth(today),
     day |-> LAST_DAYS(NextYear(today))[NextMonth(today)]]

\* a variant of the comparison that is strict
DateLeq_Strict(a, b) == Ordinal(a) < Ordinal(b)

\* a <= b for dates
DateLeq(a, b) == Ordinal(a) <= Ordinal(b)

\* the date pattern tried at the 0-based index p, with the class cls for the
\* month: "letter" for [A-Za-zÀ-ɏ], "word" for \w
DateMatchOf(text, p, cls) ==
    LET r == RunLengths(text, p, <<<<"digit", ANY>>, <<"space", ANY>>, <<cls, ANY>>,
                                   <<"space", ANY>>, <<"digit", 4>>>>)
    IN  [ok    |-> r[1] \in {1, 2} /\ r[2] >= 1 /\ r[3] >= 1 /\ r[4] >= 1 /\ r[5] = 4,
         day   |-> Slice(text, p, r[1]),
         month |-> Slice(text, p + r[1] + r[2], r[3]),
         year  |-> Slice(text, p + r[1] + r[2] + r[3] + r[4], 4),
         end   |-> p + r[1] + r[2] + r[3] + r[4] + 4]

\* the month class of parse_date_fr: scraper_mnbaq writes (\w+)
MonthClass(source) == IF source = "MNBAQ" THEN "word" ELSE "letter"

\* date(int(year), month, int(day)) of a match, or None
DateOfMatch(m) ==
    IF MONTHS_FR(m.month) # 0 /\ ValidDate(ToInt(m.year), MONTHS_FR(m.month), ToInt(m.day))
    THEN Some([year |-> ToInt(m.year), month |-> MONTHS_FR(m.month), day |-> ToInt(m.day)])
    ELSE None

\* re.search of the date pattern in an already lowered text: the date of the
\* leftmost match, or None
FirstDate(text, cls) ==
    IF \E p \in 0..(Len(text) - 1) : text[p + 1] \in Digits /\ DateMatchOf(text, p, cls).ok
    THEN DateOfMatch(DateMatchOf(text,
             Min({p \in 0..(Len(text) - 1) :
                    text[p + 1] \in Digits /\ DateMatchOf(text, p, cls).ok}), cls))
    ELSE None

\* parse_date_fr(text) of the source module
parse_date_fr(source, text) == FirstDate(Lower(Strip(text)), MonthClass(source))

\* the sum of the first k lengths
RECURSIVE SumTo(_, _)
SumTo(r, k) == IF k = 0 THEN 0 ELSE r[k] + SumTo(r, k - 1)

DatePatternLow ==
    <<<<"digit", ANY>>, <<"space", ANY>>, <<"letter", ANY>>, <<"space", ANY>>, <<"digit", 4>>>>
DateRunsOk(r, k) ==
    r[k + 1] \in {1, 2} /\ r[k + 2] >= 1 /\ r[k + 3] >= 1 /\ r[k + 4] >= 1 /\ r[k + 5] = 4

\* (D)\s+au\s+(D) tried at the 0-based index p of a lowered text: the two
\* groups when it matches
RangePattern ==
    DatePatternLow \o <<<<"space", ANY>>, <<"a", 1>>, <<"u", 1>>, <<"space", ANY>>>>
    \o DatePatternLow
RangeAt(text, p) ==
    LET r == RunLengths(text, p, RangePattern)
    IN  [ok     |-> /\ DateRunsOk(r, 0)
                    /\ r[6] >= 1 /\ r[7] = 1 /\ r[8] = 1 /\ r[9] >= 1
                    /\ DateRunsOk(r, 9),
         first  |-> Slice(text, p, SumTo(r, 5)),
         second |-> Slice(text, p + SumTo(r, 9), SumTo(r, 14) - SumTo(r, 9))]

\* the two dates of a range match, or None unless both are dates
RangeOf(source, m) ==
    IF parse_date_fr(source, m.first) # None /\ parse_date_fr(source, m.second) # None
    THEN Some([start |-> parse_date_fr(source, m.first)[1],
               end   |-> parse_date_fr(source, m.second)[1]])
    ELSE None

\* the start and end of the leftmost range of the text when both are dates,
\* or None
RangeStarts(low) == {p \in 0..(Len(low) - 1) : low[p + 1] \in Digits /\ RangeAt(low, p).ok}
RangeDates(source, text) ==
    IF RangeStarts(Lower(text)) = {} THEN None
    ELSE RangeOf(source, RangeAt(Lower(text), Min(RangeStarts(Lower(text)))))

\* jusqu['’]au\s+(D) tried at the 0-based index p of a lowered text
UntilPattern ==
    <<<<"j", 1>>, <<"u", 1>>, <<"s", 1>>, <<"q", 1>>, <<"u", 1>>, <<"quote", 1>>,
      <<"a", 1>>, <<"u", 1>>, <<"space", ANY>>>> \o DatePatternLow
UntilAt(text, p) ==
    LET r == RunLengths(text, p, UntilPattern)
    IN  [ok   |-> (\A k \in 1..8 : r[k] = 1) /\ r[9] >= 1 /\ DateRunsOk(r, 9),
         date |-> Slice(text, p + SumTo(r, 9), SumTo(r, 14) - SumTo(r, 9))]

\* the date of the leftmost 'jusqu'au D' of the text, or None
UntilStarts(low) == {p \in 0..(Len(low) - 1) : low[p + 1] = "j" /\ UntilAt(low, p).ok}
UntilDate(source, text) ==
    IF UntilStarts(Lower(text)) = {} THEN None
    ELSE parse_date_fr(source, UntilAt(Lower(text), Min(UntilStarts(Lower(text)))).date)

\* the modules whose in_window has the 'Jusqu'au' case
UNTIL_SOURCES == {"MCQ", "Gestev"}

\* in_window(date_str) of scraper_bdq, scraper_mcq, scraper_moulin and
\* scraper_gestev
in_window(source, date_str, today) ==
    IF date_str = <<>> THEN TRUE
    ELSE IF RangeDates(source, date_str) # None
    THEN /\ DateLeq(RangeDates(source, date_str)[1].start, DATE_MAX(today))
         /\ DateLeq(DATE_MIN(today), RangeDates(source, date_str)[1].end)
    ELSE IF source \in UNTIL_SOURCES /\ UntilDate(source, date_str) # None
    THEN DateLeq(DATE_MIN(today), UntilDate(source, date_str)[1])
    ELSE IF parse_date_fr(source, date_str) # None
    THEN /\ DateLeq(DATE_MIN(today), parse_date_fr(source, date_str)[1])
         /\ DateLeq(parse_date_fr(source, date_str)[1], DATE_MAX(today))
    ELSE TRUE

\* event_in_window(dates_text) of scraper_mnbaq
event_in_window(dates_text, today) == in_window("MNBAQ", dates_text, today)

WindowPhrases ==
    {<<"1","5"," ","f","é","v","r","i","e","r"," ","2","0","2","6">>, <<"2"," ","a","v","r","i","l"," ","2","0","2","6">>, <<"1"," ","j","a","n","v","i","e","r"," ","2","0","2","6">>, <<"3","1"," ","M","a","r","s"," ","2","0","2","6">>,
     <<"3","1"," ","f","é","v","r","i","e","r"," ","2","0","2","6">>, <<"1","5"," ","j","a","n","v","i","e","r"," ","2","0","2","7">>, <<"s","a","m","e","d","i">>}
\* no text, one phrase, two phrases joined by 'au', and 'Jusqu'au' one phrase
WindowTexts ==
    {<<>>} \cup WindowPhrases
    \cup {a \o <<" ","a","u"," ">> \o b : a \in WindowPhrases, b \in WindowPhrases}
    \cup {<<"J","u","s","q","u","'","a","u"," ">> \o p : p \in WindowPhrases}
\* the months in which the module is loaded
Todays == {[year |-> 2026, month |-> 2], [year |-> 2026, month |-> 12]}

WindowCall(source, text, today) ==
    [fn |-> "in_window", done |-> FALSE, source |-> source, text |-> text, today |-> today]

InitWindow ==
    /\ \E source \in Sources, text \in WindowTexts, today \in Todays :
         call = WindowCall(source, text, today)
    /\ ChkIdle /\ RunIdle /\ StoreIdle /\ MainIdle

EventInWindow ==
    /\ call.fn = "in_window" /\ ~call.done /\ call.source = "MNBAQ"
    /\ call' = [fn |-> call.fn, done |-> TRUE, source |-> call.source, text |-> call.text,
                today |-> call.today, out |-> event_in_window(call.text, call.today)]
    /\ UNCHANGED <<chkVars, runVars, storeVars, mainVars>>

InWindowOf(source) ==
    /\ call.fn = "in_window" /\ ~call.done /\ call.source = source
    /\ call' = [fn |-> call.fn, done |-> TRUE, source |-> call.source, text |-> call.text,
                today |-> call.today, out |-> in_window(source, call.text, call.today)]
    /\ UNCHANGED <<chkVars, runVars, storeVars, mainVars>>

InWindowBDQ == InWindowOf("BDQ")
InWindowMCQ == InWindowOf("MCQ")
InWindowMoulin == InWindowOf("Moulin")
InWindowGestev == InWindowOf("Gestev")

NextWindow == EventInWindow \/ InWindowBDQ \/ InWindowMCQ \/ InWindowMoulin \/ InWindowGestev

SpecWindow == InitWindow /\ [][NextWindow]_vars

(***************************************************************************)
(* Properties of the date window                                           *)
(***************************************************************************)
\* the date-shaped phrases of a text from the 0-based index pos on, in order,
\* each with its place and its date when it is one
ShapeStarts(text, pos) ==
    {p \in pos..(Len(text) - 1) : text[p + 1] \in Digits /\ DateMatch(text, p).ok}
Shape(text, p) ==
    [from |-> p, end |-> DateMatch(text, p).end,
     date |-> DateOfMatch(DateMatchOf(Lower(text), p, "letter"))]
RECURSIVE DateShapes(_, _)
DateShapes(text, pos) ==
    IF ShapeStarts(text, pos) = {} THEN <<>>
    ELSE <<Shape(text, Min(ShapeStarts(text, pos)))>>
         \o DateShapes(text, DateMatch(text, Min(ShapeStarts(text, pos))).end)

\* the first day of the current month and the day before the first day of
\* the month after next
WindowStart(today) == Ordinal([year |-> today.year, month |-> today.month, day |-> 1])
WindowEnd(today) ==
    Ordinal([year  |-> today.year + ((today.month + 1) \div 12),
             month |-> ((today.month + 1) % 12) + 1, day |-> 1]) - 1

IsRangeText(text, shapes) ==
    /\ Len(shapes) = 2 /\ shapes[1].date # None /\ shapes[2].date # None
    /\ Lower(Strip(Slice(text, shapes[1].end, shapes[2].from - shapes[1].end))) = <<"a", "u">>
IsSingleText(shapes) == Len(shapes) = 1 /\ shapes[1].date # None
IsUndatedText(shapes) == \A k \in 1..Len(shapes) : shapes[k].date = None
IsUntilText(text) == IsSubstring(<<"j","u","s","q","u","'","a","u">>, Lower(text))

WindowExamples ==
    (call.today = [year |-> 2026, month |-> 2]) =>
        /\ call.text = <<"1","5"," ","f","é","v","r","i","e","r"," ","2","0","2","6"," ","a","u"," ","2"," ","a","v","r","i","l"," ","2","0","2","6">> => call.out
        /\ call.text = <<"1"," ","j","a","n","v","i","e","r"," ","2","0","2","6">> => ~call.out

\* C16 as stated: in every source module a range is retained iff
\* start <= DATE_MAX and end >= DATE_MIN, a single date d iff
\* DATE_MIN <= d <= DATE_MAX, and a text that is empty or without a date
\* always; with the window [2026-02-01, 2026-03-31], '15 février 2026 au 2
\* avril 2026' is retained and '1 janvier 2026' is excluded.
C16_WindowFilter ==
    (call.fn = "in_window" /\ call.done) =>
        \A shapes \in {DateShapes(call.text, 0)} :
            /\ IsRangeText(call.text, shapes) =>
                 call.out = (/\ Ordinal(shapes[1].date[1]) <= WindowEnd(call.today)
                             /\ Ordinal(shapes[2].date[1]) >= WindowStart(call.today))
            /\ IsSingleText(shapes) =>
                 call.out = (/\ WindowStart(call.today) <= Ordinal(shapes[1].date[1])
                             /\ Ordinal(shapes[1].date[1]) <= WindowEnd(call.today))
            /\ IsUndatedText(shapes) => call.out
            /\ WindowExamples

\* C16 amended: the same, except that scraper_mcq and scraper_gestev retain a
\* single date written 'Jusqu'au d' iff d >= DATE_MIN.
C16_WindowFilterUntil ==
    (call.fn = "in_window" /\ call.done) =>
        \A shapes \in {DateShapes(call.text, 0)} :
            /\ IsRangeText(call.text, shapes) =>
                 call.out = (/\ Ordinal(shapes[1].date[1]) <= WindowEnd(call.today)
                             /\ Ordinal(shapes[2].date[1]) >= WindowStart(call.today))
            /\ IsSingleText(shapes) =>
                 IF call.source \in {"MCQ", "Gestev"} /\ IsUntilText(call.text)
                 THEN call.out = (Ordinal(shapes[1].date[1]) >= WindowStart(call.today))
                 ELSE call.out = (/\ WindowStart(call.today) <= Ordinal(shapes[1].date[1])
                                  /\ Ordinal(shapes[1].date[1]) <= WindowEnd(call.today))
            /\ IsUndatedText(shapes) => call.out
            /\ WindowExamples

\* the Gestev filter loaded in February 2026 has retained an event that runs
\* until a day after the window
C16_Witness ==
    /\ call.fn = "in_window" /\ call.done /\ call.source = "Gestev"
    /\ call.today = [year |-> 2026, month |-> 2]
    /\ call.text = <<"J","u","s","q","u","'","a","u"," ","2"," ","a","v","r","i","l"," ","2","0","2","6">>
    /\ call.out

(***************************************************************************)
(* Exit paths of a verification run                                        *)
(***************************************************************************)
\* the file named by --input is absent, or holds JSON that is neither an
\* array, nor an object with one of the known keys, nor one flat event
Unreadable(f) ==
    \/ f.kind \in {"missing", "scalar"}
    \/ f.kind = "object" /\ f.key \notin KNOWN_KEYS

\* C14: when the input file does not exist or holds an unrecognized JSON
\* shape, the run stops before any event is fetched, writes no report and
\* exits with a non-zero code; a run that reaches completion writes the
\* report and exits with code 0 whatever the number of flagged events.
C14_ExitPaths ==
    /\ (Unreadable(input) /\ pc # "start") =>
         /\ pc = "exit"
         /\ exit_code # None /\ exit_code # Some(0)
         /\ report = None
         /\ outcomes = <<>> /\ gets = <<>> /\ soup = None /\ errors_found = <<>>
    /\ pc = "done" =>
         /\ report # None
         /\ exit_code = Some(0)
    /\ exit_code = Some(0) => pc = "done"

C14_Witness ==
    /\ input.kind = "object" /\ input.key = "autre"
    /\ pc = "exit" /\ exit_code = Some(1)

(***************************************************************************)
(* Shape of the error report                                               *)
(***************************************************************************)
\* C15: in every report written, errors_count is the number of entries of
\* errors, total_checked is the number of events iterated over, and every
\* entry carries event, errors, url_status and verified_at, the entries for
\* missing and unreachable URLs included.
C15_ReportShape ==
    report # None =>
        /\ report[1].errors_count = Len(report[1].errors)
        /\ report[1].total_checked = Len(outcomes)
        /\ \A k \in 1..Len(report[1].errors) :
             report[1].errors[k].verified_at # None

\* the counts alone, which the written report does satisfy
C15_ReportCounts ==
    report # None =>
        /\ report[1].errors_count = Len(report[1].errors)
        /\ report[1].total_checked = Len(outcomes)
        /\ report[1].total_checked = Len(events)

(***************************************************************************)
(* normalize_price of the source modules                                   *)
(***************************************************************************)
VoirLeSite == <<"V","o","i","r"," ","l","e"," ","s","i","t","e">>
Gratuit == <<"G","r","a","t","u","i","t">>
GratuitInclus == <<"G","r","a","t","u","i","t"," ","/"," ","I","n","c","l","u","s">>
InclusEntree == <<"I","n","c","l","u","s"," ","a","v","e","c"," ","l","e"," ","b","i","l","l","e","t"," ","d","'","e","n","t","r","é","e">>
InclusBillet == <<"I","n","c","l","u","s"," ","a","v","e","c"," ","l","e"," ","b","i","l","l","e","t">>
APartirDe == <<"À"," ","p","a","r","t","i","r"," ","d","e"," ">>
PRICE_CAP == 60

DigitChars == <<"0","1","2","3","4","5","6","7","8","9">>
\* str() of a natural number
RECURSIVE IntStr(_)
IntStr(n) == IF n < 10 THEN <<DigitChars[n + 1]>>
             ELSE IntStr(n \div 10) \o <<DigitChars[(n % 10) + 1]>>

\* f"{int(lowest)} $" for a whole amount, else f"{lowest:.2f} $" with a
\* comma; the amount is in hundredths
FormatAmount(v) ==
    IF v % 100 = 0 THEN IntStr(v \div 100) \o <<" ","$">>
    ELSE IntStr(v \div 100) \o <<",">> \o <<DigitChars[((v % 100) \div 10) + 1]>>
         \o <<DigitChars[(v % 10) + 1]>> \o <<" ","$">>

SeqMin(q) == Min({q[k] : k \in 1..Len(q)})

\* s.rstrip(".")
RECURSIVE RStripDot(_)
RStripDot(s) ==
    IF s # <<>> /\ s[Len(s)] = "." THEN RStripDot(SubSeq(s, 1, Len(s) - 1)) ELSE s

\* re.sub(r"\s{2,}", " ", s): a run of two or more white space characters
\* becomes one blank, a lone white space character stays
CollapseRuns(s) ==
    LET tagged == [k \in 1..Len(s) |->
                     [c |-> IF s[k] \in Space /\ k < Len(s) /\ s[k + 1] \in Space
                            THEN " " ELSE s[k],
                      drop |-> s[k] \in Space /\ k > 1 /\ s[k - 1] \in Space]]
        kept == SelectSeq(tagged, LAMBDA t : ~t.drop)
    IN  [k \in 1..Len(kept) |-> kept[k].c]

\* re.fullmatch(r"[\d\s]+", s)
OnlyDigitsAndSpace(s) == s # <<>> /\ \A k \in 1..Len(s) : s[k] \in Digits \cup Space

\* scraper_gestev.normalize_price once gratuit and inclus are excluded
GestevPrice(raw, amounts, cleaned) ==
    IF amounts # <<>> THEN APartirDe \o FormatAmount(SeqMin(amounts))
    ELSE IF OnlyDigitsAndSpace(cleaned) THEN VoirLeSite
    ELSE IF Len(cleaned) > 2 THEN Take(cleaned, PRICE_CAP)
    ELSE VoirLeSite

normalize_price(source, raw) ==
    IF raw = <<>>
    THEN (IF source = "MCQ" THEN InclusEntree ELSE VoirLeSite)
    ELSE IF source = "MNBAQ" /\ IsSubstring(GRATUIT, Lower(raw))
                             /\ IsSubstring(INCLUS, Lower(raw))
    THEN GratuitInclus
    ELSE IF IsSubstring(GRATUIT, Lower(raw)) THEN Gratuit
    ELSE IF source \in {"MNBAQ", "MCQ"} /\ IsSubstring(INCLUS, Lower(raw)) THEN InclusEntree
    ELSE IF source = "Gestev" /\ IsSubstring(INCLUS, Lower(raw)) THEN InclusBillet
    ELSE IF source = "Gestev"
    THEN GestevPrice(raw, extract_amounts(raw), Strip(CollapseRuns(raw)))
    ELSE IF source = "Moulin" THEN RStripDot(Strip(raw))
    ELSE Strip(raw)

(***************************************************************************)
(* Inputs of normalize_price                                               *)
(***************************************************************************)
LongPriceLen == 61
PriceRaws ==
    {<<>>, <<"G","r","a","t","u","i","t">>, <<"G","r","a","t","u","i","t",","," ","i","n","c","l","u","s">>, <<"I","n","c","l","u","s">>, <<"2","9",".","5","0","$"," ","e","t"," ","p","l","u","s">>,
     <<"1","2"," ","$"," ","/"," ","5"," ","$">>, <<"2","0","2","6">>, <<"a","b">>, <<" ","5",",","5"," ","$"," ">>, <<"P","a","y","a","n","t",".">>, <<"S","u","r"," "," ","p","l","a","c","e">>,
     <<"0",",","5","0"," ","$">>, Rep("a", LongPriceLen)}

PriceCall(source, raw) ==
    [fn |-> "normalize_price", done |-> FALSE, source |-> source, raw |-> raw]

InitPrice ==
    /\ \E source \in Sources, raw \in PriceRaws : call = PriceCall(source, raw)
    /\ ChkIdle /\ RunIdle /\ StoreIdle /\ MainIdle

NormalizePriceOf(source) ==
    /\ call.fn = "normalize_price" /\ ~call.done /\ call.source = source
    /\ call' = [fn |-> call.fn, done |-> TRUE, source |-> call.source, raw |-> call.raw,
                out |-> normalize_price(source, call.raw)]
    /\ UNCHANGED <<chkVars, runVars, storeVars, mainVars>>

NormalizePriceMNBAQ == NormalizePriceOf("MNBAQ")
NormalizePriceBDQ == NormalizePriceOf("BDQ")
NormalizePriceMCQ == NormalizePriceOf("MCQ")
NormalizePriceMoulin == NormalizePriceOf("Moulin")
NormalizePriceGestev == NormalizePriceOf("Gestev")

NextPrice ==
    \/ NormalizePriceMNBAQ
    \/ NormalizePriceBDQ
    \/ NormalizePriceMCQ
    \/ NormalizePriceMoulin
    \/ NormalizePriceGestev

SpecPrice == InitPrice /\ [][NextPrice]_vars

PriceDone == call.fn = "normalize_price" /\ call.done

\* the steps of the statement, in its order
PriceSteps(source, raw, out) ==
    IF raw = <<>> THEN out = VoirLeSite
    ELSE IF IsSubstring(GRATUIT, Lower(raw)) THEN out = Gratuit
    ELSE IF IsSubstring(INCLUS, Lower(raw)) THEN out \in {InclusEntree, InclusBillet}
    ELSE IF source = "Gestev" /\ extract_amounts(raw) # <<>>
    THEN out = APartirDe \o FormatAmount(SeqMin(extract_amounts(raw)))
    ELSE out \in {Take(raw, PRICE_CAP), Take(Strip(raw), PRICE_CAP)}

\* C19: in every source module an empty raw price gives 'Voir le site'; one
\* containing 'gratuit' gives 'Gratuit'; otherwise one containing 'inclus'
\* gives the included-with-admission label; otherwise (Gestev) the lowest
\* amount in [1, 999] gives 'À partir de N $'; otherwise the raw text capped at
\* 60 characters is returned; the first step that applies wins.
C19_PriceSteps ==
    PriceDone => PriceSteps(call.source, call.raw, call.out)

\* the steps hold in scraper_gestev for a text that is empty, or mentions
\* gratuit or inclus, or holds an amount, or is longer than two characters
\* and not made of digits alone
C19_GestevSteps ==
    (/\ PriceDone /\ call.source = "Gestev"
     /\ \/ call.raw = <<>>
        \/ IsSubstring(GRATUIT, Lower(call.raw)) \/ IsSubstring(INCLUS, Lower(call.raw))
        \/ extract_amounts(call.raw) # <<>>
        \/ Len(Strip(CollapseRuns(call.raw))) > 2
             /\ ~OnlyDigitsAndSpace(call.raw) /\ CollapseRuns(call.raw) = call.raw)
    => PriceSteps(call.source, call.raw, call.out)

(***************************************************************************)
(* detect_age of the source modules                                        *)
(***************************************************************************)
AGE_YOUNG == 5
AGE_MID == 12
Age0to5 == <<"0","-","5"," ","a","n","s">>
Age0to3 == <<"0","-","3"," ","a","n","s">>
AnsEtPlus == <<" ","a","n","s"," ","e","t"," ","+">>
Adolescents == <<"A","d","o","l","e","s","c","e","n","t","s">>
Familles == <<"F","a","m","i","l","l","e","s">>
Tous == <<"T","o","u","s">>

\* r"(\d+)\s*(?:ans?|year)" tried at the 0-based index p
AgePattern == <<<<"digit", ANY>>, <<"space", ANY>>>>
AgeAt(text, p) ==
    LET r == RunLengths(text, p, AgePattern)
    IN  [ok  |-> /\ r[1] >= 1
                 /\ \/ Slice(text, p + r[1] + r[2], 2) = <<"a","n">>
                    \/ Slice(text, p + r[1] + r[2], 4) = <<"y","e","a","r">>,
         age |-> ToInt(Slice(text, p, r[1]))]
AgeStarts(text) == {p \in 0..(Len(text) - 1) : text[p + 1] \in Digits /\ AgeAt(text, p).ok}
\* re.search: the leftmost match, None when there is none
AgeSearch(text) ==
    IF AgeStarts(text) = {} THEN None ELSE Some(AgeAt(text, Min(AgeStarts(text))).age)

BABY_WORDS(source) ==
    {<<"p","o","u","s","s","e","t","t","e">>, <<"b","é","b","é">>, <<"b","a","m","b","i","n">>}
    \cup (IF source = "MNBAQ" THEN {} ELSE {<<"t","o","u","t","-","p","e","t","i","t">>})

\* the bucket of an age that was found
AgeBucket(source, age) ==
    IF age <= AGE_YOUNG THEN Age0to5
    ELSE IF source = "MNBAQ" \/ age <= AGE_MID THEN IntStr(age) \o AnsEtPlus
    ELSE Adolescents

\* detect_age of scraper_mnbaq, scraper_mcq and scraper_gestev
detect_age(source, description, titre) ==
    IF AgeSearch(Lower(description \o <<" ">> \o titre)) # None
    THEN AgeBucket(source, AgeSearch(Lower(description \o <<" ">> \o titre))[1])
    ELSE IF \E w \in BABY_WORDS(source) : IsSubstring(w, Lower(description \o <<" ">> \o titre))
    THEN (IF source = "MNBAQ" THEN Age0to3 ELSE Age0to5)
    ELSE Tous

\* r"public\s+cible\s*[:\-]\s*([\d\s\-àa]+\s*ans?)" with re.I, tried at the
\* 0-based index p of the lowered text: the run of [\d\s\-àa] after the colon
\* has to end with the a of "an"
PublicCiblePattern ==
    <<<<"p", 1>>, <<"u", 1>>, <<"b", 1>>, <<"l", 1>>, <<"i", 1>>, <<"c", 1>>,
      <<"space", ANY>>,
      <<"c", 1>>, <<"i", 1>>, <<"b", 1>>, <<"l", 1>>, <<"e", 1>>,
      <<"space", ANY>>, <<"colon", 1>>, <<"ages", ANY>>>>
PublicCibleOk(low, p, r) ==
    /\ \A k \in (1..6) \cup (8..12) : r[k] = 1
    /\ r[7] >= 1 /\ r[14] = 1 /\ r[15] >= 2
    /\ Slice(low, p + SumTo(r, 15) - 1, 2) = <<"a","n">>
PublicCibleStarts(low) ==
    {p \in 0..(Len(low) - 1) :
       low[p + 1] = "p" /\ PublicCibleOk(low, p, RunLengths(low, p, PublicCiblePattern))}
\* m.group(1) without its final "an" or "ans"
PublicCibleAges(low, p, r) == Slice(low, p + SumTo(r, 14), r[15] - 1)
\* re.findall(r"\d+", ages)[0], None when ages holds no digit
FirstNumber(ages) ==
    IF \A k \in 1..Len(ages) : ages[k] \notin Digits THEN None
    ELSE Some(ToInt(Slice(ages, Min({k \in 1..Len(ages) : ages[k] \in Digits}) - 1,
                          ClassRun(ages, Min({k \in 1..Len(ages) : ages[k] \in Digits}) - 1,
                                   "digit", ANY))))
PublicCibleAge(low) ==
    IF PublicCibleStarts(low) = {} THEN None
    ELSE FirstNumber(PublicCibleAges(low, Min(PublicCibleStarts(low)),
                                     RunLengths(low, Min(PublicCibleStarts(low)),
                                                PublicCiblePattern)))

detect_age_moulin(text) ==
    IF PublicCibleAge(Lower(text)) # None
    THEN AgeBucket("Moulin", PublicCibleAge(Lower(text))[1])
    ELSE IF IsSubstring(<<"f","a","m","i","l","l","e">>, Lower(text)) THEN Familles
    ELSE Tous

(***************************************************************************)
(* Inputs of detect_age                                                    *)
(***************************************************************************)
AGE_SOURCES == {"MNBAQ", "MCQ", "Gestev", "Moulin"}
AgeDescriptions ==
    {<<>>, <<"P","o","u","r"," ","l","e","s"," ","4"," ","a","n","s">>, <<"d","è","s"," ","8"," ","a","n","s">>, <<"1","3"," ","a","n","s"," ","e","t"," ","p","l","u","s">>, <<"1","2"," ","a","n","s">>,
     <<"5","a","n","s">>, <<"u","n"," ","b","é","b","é">>, <<"e","n"," ","f","a","m","i","l","l","e">>, <<"P","u","b","l","i","c"," ","c","i","b","l","e",":"," ","5"," ","à"," ","8"," ","a","n","s">>,
     <<"P","u","b","l","i","c"," ","c","i","b","l","e"," ",":"," ","1","3"," ","a","n","s">>, <<"3"," ","y","e","a","r"," ","o","l","d","s">>, <<"e","n"," ","2","0","2","6">>, <<"1","0"," ","a","n","i","m","a","u","x">>,
     <<"t","o","u","t","-","p","e","t","i","t">>, <<"P","u","b","l","i","c"," ","c","i","b","l","e"," ","-"," ","6","-","1","2"," ","a","n","s">>}
AgeTitles == {<<>>, <<"A","t","e","l","i","e","r"," ","6"," ","a","n","s">>}

AgeCall(source, description, titre) ==
    [fn |-> "detect_age", done |-> FALSE, source |-> source,
     description |-> description, titre |-> titre]

InitAge ==
    /\ \E source \in AGE_SOURCES, description \in AgeDescriptions, titre \in AgeTitles :
         call = AgeCall(source, description, titre)
    /\ ChkIdle /\ RunIdle /\ StoreIdle /\ MainIdle

DetectAgeOf(source) ==
    /\ call.fn = "detect_age" /\ ~call.done /\ call.source = source
    /\ call' = [fn |-> call.fn, done |-> TRUE, source |-> call.source,
                description |-> call.description, titre |-> call.titre,
                out |-> detect_age(source, call.description, call.titre)]
    /\ UNCHANGED <<chkVars, runVars, storeVars, mainVars>>

DetectAgeMNBAQ == DetectAgeOf("MNBAQ")
DetectAgeMCQ == DetectAgeOf("MCQ")
DetectAgeGestev == DetectAgeOf("Gestev")

\* scraper_moulin.main: detect_age_moulin(full_text), the text of the page
DetectAgeMoulin ==
    /\ call.fn = "detect_age" /\ ~call.done /\ call.source = "Moulin"
    /\ call' = [fn |-> call.fn, done |-> TRUE, source |-> call.source,
                description |-> call.description, titre |-> call.titre,
                out |-> detect_age_moulin(call.titre \o <<" ">> \o call.description)]
    /\ UNCHANGED <<chkVars, runVars, storeVars, mainVars>>

NextAge == DetectAgeMNBAQ \/ DetectAgeMCQ \/ DetectAgeGestev \/ DetectAgeMoulin

SpecAge == InitAge /\ [][NextAge]_vars

AgeDone == call.fn = "detect_age" /\ call.done
\* the age the module extracts from the text of the call
AgeMention ==
    IF call.source = "Moulin"
    THEN PublicCibleAge(Lower(call.titre \o <<" ">> \o call.description))
    ELSE AgeSearch(Lower(call.description \o <<" ">> \o call.titre))
AGE_KEYWORDS ==
    {<<"p","o","u","s","s","e","t","t","e">>, <<"b","é","b","é">>, <<"b","a","m","b","i","n">>, <<"t","o","u","t","-","p","e","t","i","t">>, <<"f","a","m","i","l","l","e">>, <<"e","n","f","a","n","t">>}
NoAgeKeyword ==
    \A w \in AGE_KEYWORDS :
       ~IsSubstring(w, Lower(call.description \o <<" ">> \o call.titre))

\* C20: in MNBAQ, MCQ, Gestev and Moulin an extracted age N <= 5 gives
\* '0-5 ans', 6 <= N <= 12 gives 'N ans et +', N > 12 gives 'Adolescents';
\* with no age mention and no keyword match the result is 'Tous'.
C20_AgeBuckets ==
    AgeDone =>
        /\ AgeMention # None =>
             /\ AgeMention[1] <= 5 => call.out = Age0to5
             /\ AgeMention[1] \in 6..12 => call.out = IntStr(AgeMention[1]) \o AnsEtPlus
             /\ AgeMention[1] > 12 => call.out = Adolescents
        /\ (AgeMention = None /\ NoAgeKeyword) => call.out = Tous

\* the buckets hold in the three modules other than scraper_mnbaq
C20_AgeBucketsButMNBAQ ==
    call.source # "MNBAQ" => C20_AgeBuckets

(***************************************************************************)
(* main() of the source modules: the listing walk, the detail pages and    *)
(* the records                                                             *)
(***************************************************************************)
\* the month in which the module is loaded
MainToday == [year |-> 2026, month |-> 2]

\* what scrape_detail returns: the fields read from the detail page, or {}
\* (found is FALSE) when the page could not be fetched
Detail(titre, date_str, description, prix_raw, public) ==
    [found |-> TRUE, titre |-> titre, date_str |-> date_str, description |-> description,
     prix_raw |-> prix_raw, public |-> public]
NoDetail ==
    [found |-> FALSE, titre |-> <<>>, date_str |-> <<>>, description |-> <<>>,
     prix_raw |-> <<>>, public |-> <<>>]

\* the record main appends; the fields derived from the others (quartier,
\* theme, age, semaine, image, date) are left out
Evenement(titre, description, prix, url) ==
    [titre |-> titre, description |-> description, prix |-> prix, URL |-> url]

PUBLICS_OK == {<<"e","n","f","a","n","t","s">>, <<"a","d","o","l","e","s","c","e","n","t">>, <<"f","a","m","i","l","l","e">>, <<"f","a","m","i","l","l","e","s">>, <<"t","o","u","s">>,
               <<"t","o","u","t"," ","p","u","b","l","i","c">>}
\* scraper_bdq.public_ok: only_adult is the negation of has_ok
public_ok(publics_text) ==
    publics_text = <<>> \/ \E w \in PUBLICS_OK : IsSubstring(w, Lower(publics_text))

\* scraper_moulin.scrape_detail: start and end from the visible date text
DateStarts(low) ==
    {p \in 0..(Len(low) - 1) : low[p + 1] \in Digits /\ DateMatchOf(low, p, "letter").ok}
MoulinStart(low) ==
    IF DateStarts(low) = {} THEN None
    ELSE DateOfMatch(DateMatchOf(low, Min(DateStarts(low)), "letter"))
MoulinEnd(low) ==
    IF DateStarts(low) = {} THEN None
    ELSE IF RangeAt(low, Min(DateStarts(low))).ok
    THEN parse_date_fr("Moulin", RangeAt(low, Min(DateStarts(low))).second)
    ELSE MoulinStart(low)
\* scraper_moulin.main: end = detail.get("end") or start; the event is kept
\* unless start and not (start <= DATE_MAX and end >= DATE_MIN)
MoulinKept(low, today) ==
    \/ MoulinStart(low) = None
    \/ /\ DateLeq(MoulinStart(low)[1], DATE_MAX(today))
       /\ DateLeq(DATE_MIN(today),
                  IF MoulinEnd(low) = None THEN MoulinStart(low)[1] ELSE MoulinEnd(low)[1])

MNBAQ_DESC == <<"A","c","t","i","v","i","t","é"," ","a","u"," ","M","u","s","é","e"," ","n","a","t","i","o","n","a","l"," ","d","e","s"," ","b","e","a","u","x","-","a","r","t","s"," ","d","u"," ","Q","u","é","b","e","c"," ",":"," ">>
CTA_TITLES ==
    {<<"b","i","l","l","e","t","s">>, <<"a","c","h","e","t","e","r">>, <<"b","u","y">>, <<"t","i","c","k","e","t","s">>, <<"r","é","s","e","r","v","e","r">>, <<"c","o","m","m","a","n","d","e","r">>,
     <<"v","o","i","r"," ","p","l","u","s">>, <<"m","o","r","e">>, <<"d","e","t","a","i","l","s">>}
SHORT_TITLE_LEN == 5

\* scraper_gestev.main: the title of the detail page replaces a listing title
\* that is a call to action, shorter than 5 characters or without a letter
GestevTitle(titre, detail_titre) ==
    IF /\ Strip(detail_titre) # <<>>
       /\ \/ Lower(Strip(titre)) \in CTA_TITLES
          \/ Len(titre) < SHORT_TITLE_LEN
          \/ \A k \in 1..Len(titre) : ~IsLetter(titre[k])
    THEN Strip(detail_titre) ELSE titre
GestevTitleOk(titre) ==
    titre # <<>> /\ Lower(Strip(titre)) \notin CTA_TITLES /\ Len(titre) >= MIN_TITLE_LEN

\* the card is set aside before its detail page is asked for
FilteredBeforeFetch(source, card, today) ==
    CASE source = "MCQ"    -> ~in_window("MCQ", card.date_str, today)
      [] source = "Gestev" -> card.date_str # <<>> /\ ~in_window("Gestev", card.date_str, today)
      [] OTHER             -> FALSE

\* the body of main's loop over the cards once scrape_detail has returned:
\* the records it appends, none or one
BuildRecords(source, card, detail, today) ==
    CASE source = "MNBAQ" ->
           IF detail.date_str # <<>> /\ ~event_in_window(detail.date_str, today) THEN <<>>
           ELSE <<Evenement(card.titre,
                            IF detail.description # <<>> THEN detail.description
                            ELSE MNBAQ_DESC \o card.titre \o <<".">>,
                            normalize_price("MNBAQ", detail.prix_raw), card.url)>>
      [] source = "BDQ" ->
           IF ~detail.found \/ ~public_ok(detail.public)
              \/ ~in_window("BDQ", detail.date_str, today) THEN <<>>
           ELSE <<Evenement(card.titre, detail.description,
                            normalize_price("BDQ", detail.prix_raw), card.url)>>
      [] source = "MCQ" ->
           <<Evenement(card.titre, detail.description,
                       normalize_price("MCQ", detail.prix_raw), card.url)>>
      [] source = "Moulin" ->
           IF ~MoulinKept(Lower(detail.date_str), today) THEN <<>>
           ELSE <<Evenement(card.titre, detail.description,
                            normalize_price("Moulin", detail.prix_raw), card.url)>>
      [] source = "Gestev" ->
           IF \/ ~GestevTitleOk(GestevTitle(card.titre, detail.titre))
              \/ /\ card.date_str = <<>> /\ detail.date_str # <<>>
                 /\ ~in_window("Gestev", detail.date_str, today)
           THEN <<>>
           ELSE <<Evenement(GestevTitle(card.titre, detail.titre), detail.description,
                            normalize_price("Gestev", detail.prix_raw), card.url)>>

\* scraper_mnbaq.get_total_pages: the highest page number linked, 1 at least
get_total_pages(listing) == IF listing.last > 1 THEN listing.last ELSE 1

\* the cards of a page whose URL is not among those collected so far
Fresh(found, collected) ==
    Cardinality({found[k].url : k \in 1..Len(found)}
                \ {collected[k].url : k \in 1..Len(collected)})

MAX_EMPTY_PAGES == 2

(***************************************************************************)
(* Inputs of a main() run                                                  *)
(***************************************************************************)
MaxPages == 3

Href(source, slug, suffix) == DetailPath(source) \o slug \o suffix
TitleA == <<"C","o","n","t","e"," ","A">>
LinkA(source) == Link(Href(source, <<"a">>, <<>>), TitleA, <<>>)
LinkB(source) == Link(Href(source, <<"b">>, <<"/">>), <<"C","o","n","t","e"," ","B">>, <<"1"," ","j","a","n","v","i","e","r"," ","2","0","2","6">>)
LinkC(source) == Link(Href(source, <<"c">>, <<>>), <<"C","o","n","t","e"," ","C">>, <<"1","5"," ","f","é","v","r","i","e","r"," ","2","0","2","6">>)
LinkD(source) == Link(Href(source, <<"d">>, <<>>), <<"Z","o","o">>, <<>>)
\* the page of LinkA under other hrefs
LinkASlash(source) == Link(Href(source, <<"a">>, <<"/">>), TitleA, <<>>)
LinkAQuery(source) == Link(Href(source, <<"a">>, <<"?","p","=","1">>), <<"C","o","n","t","e"," ","A"," ","b","i","s">>, <<>>)
LinkADated(source) == Link(Href(source, <<"a">>, <<"/","2","0","2","6","-","0","3","-","0","1","/">>), <<"C","o","n","t","e"," ","A"," ","t","e","r">>, <<>>)

Listing(links, next_link, last) == [links |-> links, next_link |-> next_link, last |-> last]
\* the link lists of a listing page; the modules that walk several pages by
\* following a next link get the lists without the other hrefs of LinkA
LinkLists(source) ==
    {<<>>, <<LinkA(source), LinkB(source), LinkC(source)>>, <<LinkD(source)>>,
     <<LinkA(source)>>}
    \cup (IF source \in {"MCQ", "Gestev"} THEN {}
          ELSE {<<LinkA(source), LinkASlash(source)>>,
                <<LinkAQuery(source), LinkADated(source)>>})
\* scraper_mnbaq reads the number of pages (none linked, or MaxPages - 1),
\* the others look for a next link
ListingPages(source) ==
    IF source = "MNBAQ"
    THEN {Listing(l, FALSE, n) : l \in LinkLists(source), n \in {0, MaxPages - 1}}
    ELSE {Listing(l, b, 0) : l \in LinkLists(source), b \in BOOLEAN}

DetailFull == Detail(<<"G","r","a","n","d"," ","c","o","n","t","e">>, <<"1","5"," ","f","é","v","r","i","e","r"," ","2","0","2","6">>, <<"U","n"," ","c","o","n","t","e",".">>, <<"5"," ","$">>, <<>>)
DetailOld == Detail(<<"G","r","a","n","d"," ","c","o","n","t","e">>, <<"1"," ","j","a","n","v","i","e","r"," ","2","0","2","6">>, <<"U","n"," ","c","o","n","t","e",".">>, <<>>, <<>>)
DetailAdult == Detail(<<"R","o","m","a","n">>, <<>>, <<"U","n"," ","r","o","m","a","n",".">>, <<>>, <<"A","d","u","l","t","e","s">>)
DetailPages(source) ==
    {DetailFull, DetailOld} \cup (IF source = "BDQ" THEN {DetailAdult} ELSE {})

\* the answers to the GETs of one fetch: a page at the second attempt, no page
MainAnswers ==
    {<<Failure, Response(200), Response(200)>>,
     <<Failure, Response(500), Failure>>}

Fetched(what, ok, found, fresh, next_link) ==
    [what |-> what, ok |-> ok, cards |-> found, fresh |-> fresh, next_link |-> next_link]

(***************************************************************************)
(* main() of a source module, one action per loop turn                     *)
(***************************************************************************)
\* the listing loop is over: deduplication; scraper_gestev returns [] when no
\* card is left
EndListing(collected) ==
    /\ all_cards' = collected
    /\ unique_cards' = Deduplicate(scraper, collected)
    /\ nth' = 1
    /\ mpc' = IF scraper = "Gestev" /\ collected = <<>> THEN "returned" ELSE "details"

MoreListing(collected) ==
    /\ all_cards' = collected
    /\ UNCHANGED <<unique_cards, nth, mpc>>

\* scraper_mnbaq.main: the first listing page; sys.exit(1) without it
ListMNBAQFirst ==
    /\ scraper = "MNBAQ" /\ mpc = "listing" /\ page_num = 1
    /\ \E answers \in MainAnswers, listing \in ListingPages("MNBAQ") :
         IF fetch_page(answers).soup = None
         THEN /\ mpc' = "exited"
              /\ fetches' = Append(fetches, Fetched("listing", FALSE, 0, 0, FALSE))
              /\ UNCHANGED <<page_num, total_pages, all_cards, unique_cards, nth>>
         ELSE /\ total_pages' = get_total_pages(listing)
              /\ page_num' = 2
              /\ fetches' = Append(fetches,
                     Fetched("listing", TRUE, Len(parse_listing("MNBAQ", listing.links)),
                             Fresh(parse_listing("MNBAQ", listing.links), <<>>), FALSE))
              /\ IF get_total_pages(listing) < 2
                 THEN EndListing(parse_listing("MNBAQ", listing.links))
                 ELSE MoreListing(parse_listing("MNBAQ", listing.links))
    /\ UNCHANGED <<scraper, empty_streak, evenements, call, chkVars, runVars, storeVars>>

\* scraper_mnbaq.main: for page_num in range(2, total_pages + 1)
ListMNBAQNext ==
    /\ scraper = "MNBAQ" /\ mpc = "listing" /\ page_num >= 2 /\ page_num <= total_pages
    /\ \E answers \in MainAnswers, listing \in ListingPages("MNBAQ") :
         \E found \in {IF fetch_page(answers).soup = None THEN <<>>
                       ELSE parse_listing("MNBAQ", listing.links)} :
            /\ fetches' = Append(fetches,
                   Fetched("listing", fetch_page(answers).soup # None, Len(found),
                           Fresh(found, all_cards), FALSE))
            /\ IF page_num = total_pages
               THEN EndListing(all_cards \o found)
               ELSE MoreListing(all_cards \o found)
    /\ page_num' = page_num + 1
    /\ UNCHANGED <<scraper, total_pages, empty_streak, evenements, call, chkVars, runVars,
                   storeVars>>

\* main of scraper_bdq and scraper_moulin: one listing page, return [] without
\* it
ListOnePage(source) ==
    /\ scraper = source /\ mpc = "listing"
    /\ \E answers \in MainAnswers, listing \in ListingPages(source) :
         IF fetch(source, answers).soup = None
         THEN /\ mpc' = "returned"
              /\ fetches' = Append(fetches, Fetched("listing", FALSE, 0, 0, FALSE))
              /\ UNCHANGED <<all_cards, unique_cards, nth>>
         ELSE /\ EndListing(parse_listing(source, listing.links))
              /\ fetches' = Append(fetches,
                     Fetched("listing", TRUE, Len(parse_listing(source, listing.links)),
                             Fresh(parse_listing(source, listing.links), <<>>),
                             listing.next_link))
    /\ UNCHANGED <<scraper, page_num, total_pages, empty_streak, evenements, call, chkVars,
                   runVars, storeVars>>
ListBDQ == ListOnePage("BDQ")
ListMoulin == ListOnePage("Moulin")

\* scraper_mcq.main: one turn of while True
ListMCQ ==
    /\ scraper = "MCQ" /\ mpc = "listing" /\ page_num <= MaxPages
    /\ \E answers \in MainAnswers, listing \in ListingPages("MCQ") :
         \E found \in {IF fetch("MCQ", answers).soup = None THEN <<>>
                       ELSE parse_listing("MCQ", listing.links)} :
            /\ fetches' = Append(fetches,
                   Fetched("listing", fetch("MCQ", answers).soup # None, Len(found),
                           Fresh(found, all_cards), listing.next_link))
            /\ IF found = <<>> \/ ~listing.next_link
               THEN EndListing(all_cards \o found) /\ UNCHANGED page_num
               ELSE MoreListing(all_cards \o found) /\ page_num' = page_num + 1
    /\ UNCHANGED <<scraper, total_pages, empty_streak, evenements, call, chkVars, runVars,
                   storeVars>>

\* scraper_gestev.main: one turn of while True
ListGestev ==
    /\ scraper = "Gestev" /\ mpc = "listing" /\ page_num < MaxPages
    /\ \E answers \in MainAnswers, listing \in ListingPages("Gestev") :
         IF fetch("Gestev", answers).soup = None
         THEN /\ fetches' = Append(fetches, Fetched("listing", FALSE, 0, 0, FALSE))
              /\ EndListing(all_cards)
              /\ UNCHANGED <<page_num, empty_streak>>
         ELSE \E found \in {parse_listing("Gestev", listing.links)} :
                /\ fetches' = Append(fetches,
                       Fetched("listing", TRUE, Len(found), Fresh(found, all_cards),
                               listing.next_link))
                /\ empty_streak' = IF found # <<>> THEN 0 ELSE empty_streak + 1
                /\ IF \/ found = <<>> /\ empty_streak + 1 >= MAX_EMPTY_PAGES
                      \/ ~listing.next_link
                   THEN EndListing(all_cards \o found) /\ UNCHANGED page_num
                   ELSE MoreListing(all_cards \o found) /\ page_num' = page_num + 1
    /\ UNCHANGED <<scraper, total_pages, evenements, call, chkVars, runVars, storeVars>>

\* main: one turn of the loop over the cards
DetailOf(source) ==
    /\ scraper = source /\ mpc = "details" /\ nth <= Len(unique_cards)
    /\ IF FilteredBeforeFetch(source, unique_cards[nth], MainToday)
       THEN UNCHANGED <<evenements, fetches>>
       ELSE \E answers \in MainAnswers, page_read \in DetailPages(source) :
              \E detail \in {IF fetch(source, answers).soup = None THEN NoDetail
                             ELSE page_read} :
                 /\ evenements' = evenements
                        \o BuildRecords(source, unique_cards[nth], detail, MainToday)
                 /\ fetches' = Append(fetches, Fetched("detail", detail.found, 0, 0, FALSE))
    /\ nth' = nth + 1
    /\ UNCHANGED <<scraper, mpc, page_num, total_pages, empty_streak, all_cards,
                   unique_cards, call, chkVars, runVars, storeVars>>
DetailMNBAQ == DetailOf("MNBAQ")
DetailBDQ == DetailOf("BDQ")
DetailMCQ == DetailOf("MCQ")
DetailMoulin == DetailOf("Moulin")
DetailGestev == DetailOf("Gestev")

\* main: return evenements
Return ==
    /\ mpc = "details" /\ nth > Len(unique_cards)
    /\ mpc' = "returned"
    /\ UNCHANGED <<scraper, page_num, total_pages, empty_streak, all_cards, unique_cards,
                   nth, evenements, fetches, call, chkVars, runVars, storeVars>>

InitMain ==
    /\ scraper \in Sources /\ mpc = "listing"
    /\ page_num = (IF scraper = "Gestev" THEN 0 ELSE 1)
    /\ total_pages = 0 /\ empty_streak = 0
    /\ all_cards = <<>> /\ unique_cards = <<>> /\ nth = 0 /\ evenements = <<>>
    /\ fetches = <<>>
    /\ call = NoCall /\ ChkIdle /\ RunIdle /\ StoreIdle

NextMain ==
    \/ ListMNBAQFirst
    \/ ListMNBAQNext
    \/ ListBDQ
    \/ ListMoulin
    \/ ListMCQ
    \/ ListGestev
    \/ DetailMNBAQ
    \/ DetailBDQ
    \/ DetailMCQ
    \/ DetailMoulin
    \/ DetailGestev
    \/ Return

SpecMain == InitMain /\ [][NextMain]_vars

(***************************************************************************)
(* Properties of a main() run                                              *)
(***************************************************************************)
\* a fetch of the run exhausted its retries
NetworkFailure == \E k \in 1..Len(fetches) : ~fetches[k].ok
CardURLs == {unique_cards[k].url : k \in 1..Len(unique_cards)}

\* C13: a network failure that exhausts its retries, on a listing page or on
\* a detail page, never terminates the process: main() goes on to return the
\* records it could build, each of them the record of one of the cards.
C13_FailureNeverExits ==
    NetworkFailure =>
        /\ mpc # "exited"
        /\ Len(evenements) < (IF nth = 0 THEN 1 ELSE nth)
        /\ \A k \in 1..Len(evenements) : evenements[k].URL \in CardURLs

\* the same for the modules other than scraper_mnbaq
C13_FailureNeverExitsButMNBAQ ==
    scraper # "MNBAQ" => C13_FailureNeverExits

\* the listing fetches of the run, in order
ListingFetches == SelectSeq(fetches, LAMBDA f : f.what = "listing")

\* the listing page fetched k-th is one the walk has to stop at: it could not
\* be fetched, it has no next-page link, it is the second page in a row
\* without card, or it has cards but none that is new
StopsWalk(k) ==
    \/ ~ListingFetches[k].ok
    \/ ~ListingFetches[k].next_link
    \/ /\ k >= MAX_EMPTY_PAGES
       /\ \A j \in 0..(MAX_EMPTY_PAGES - 1) : ListingFetches[k - j].cards = 0
    \/ ListingFetches[k].cards > 0 /\ ListingFetches[k].fresh = 0

\* page 1 with 3 cards, page 2 with 1 card, an empty page 3 without next link
ExampleWalk ==
    /\ Len(ListingFetches) = 3
    /\ \A k \in 1..3 : ListingFetches[k].ok
    /\ ListingFetches[1].cards = 3 /\ ListingFetches[1].next_link
    /\ ListingFetches[2].cards = 1 /\ ListingFetches[2].fresh = 1 /\ ListingFetches[2].next_link
    /\ ListingFetches[3].cards = 0 /\ ~ListingFetches[3].next_link

\* C17: the Gestev listing walk stops at the first page that contributes no
\* new detail URL, or after 2 consecutive pages with no card, or at the first
\* page without next-page link, or when a page fetch fails; fed 3 cards, then
\* 1 card, then an empty page without next link, it yields 4 deduplicated URLs
\* and halts.
C17_GestevWalkStops ==
    scraper = "Gestev" =>
        /\ \A k \in 1..Len(ListingFetches) :
             StopsWalk(k) => k = Len(ListingFetches) /\ mpc # "listing"
        /\ ExampleWalk => mpc # "listing" /\ Len(unique_cards) = 4

\* the walk as scraper_gestev.main does it: a page whose cards were all
\* collected before does not stop it
C17_GestevWalkAsCoded ==
    scraper = "Gestev" =>
        /\ \A k \in 1..Len(ListingFetches) :
             (\/ ~ListingFetches[k].ok
              \/ ~ListingFetches[k].next_link
              \/ /\ k >= MAX_EMPTY_PAGES
                 /\ \A j \in 0..(MAX_EMPTY_PAGES - 1) : ListingFetches[k - j].cards = 0)
             => k = Len(ListingFetches) /\ mpc # "listing"
        /\ ExampleWalk => mpc # "listing" /\ Len(unique_cards) = 4

C17_ExampleReached ==
    scraper = "Gestev" /\ ExampleWalk /\ mpc = "returned"

\* the URL without query string, trailing slash and trailing date suffix
Canonical(url) ==
    RStripSlash(DropDateSuffix(RStripSlash(BeforeQuery(url)) \o <<"/">>))

\* C18: for every source, the batch returned by main() contains no two
\* records with the same canonical URL.
C18_OneRecordPerCanonicalURL ==
    mpc = "returned" =>
        \A j, k \in 1..Len(evenements) :
            j # k => Canonical(evenements[j].URL) # Canonical(evenements[k].URL)

\* no two records of a batch have the same URL as written, except in
\* scraper_bdq and scraper_moulin
C18_OneRecordPerURL ==
    (mpc = "returned" /\ scraper \notin {"BDQ", "Moulin"}) =>
        \A j, k \in 1..Len(evenements) : j # k => evenements[j].URL # evenements[k].URL

(***************************************************************************)
(* parse_dates_in_text on date phrases                                     *)
(***************************************************************************)
\* a phrase and the date it writes, None when it writes none
Phrase(s, d) == [s |-> s, d |-> d]
YMD(y, m, d) == [year |-> y, month |-> m, day |-> d]
DatedPhrases ==
    {Phrase(<<"1","5"," ","f","é","v","r","i","e","r"," ","2","0","2","6">>, Some(YMD(2026, 2, 15))),
     Phrase(<<"2"," ","a","v","r","i","l"," ","2","0","2","6">>, Some(YMD(2026, 4, 2))),
     Phrase(<<"2","9"," ","F","é","v","r","i","e","r"," ","2","0","2","4">>, Some(YMD(2024, 2, 29))),
     Phrase(<<"1"," ","a","o","û","t"," ","2","0","2","6">>, Some(YMD(2026, 8, 1))),
     Phrase(<<"3","1"," ","f","é","v","r","i","e","r"," ","2","0","2","6">>, None),
     Phrase(<<"2","9"," ","f","é","v","r","i","e","r"," ","2","0","2","6">>, None),
     Phrase(<<"3","1"," ","a","v","r","i","l"," ","2","0","2","6">>, None),
     Phrase(<<"0"," ","m","a","r","s"," ","2","0","2","6">>, None),
     Phrase(<<"1","2"," ","l","u","n","d","i"," ","2","0","2","6">>, None),
     Phrase(<<"s","a","m","e","d","i">>, None)}

\* one phrase, or two joined by ' au ', after some words
PhraseLists == {<<a>> : a \in DatedPhrases} \cup (DatedPhrases \X DatedPhrases)
PhraseHeads == {<<>>, <<"D","u"," ">>}
RECURSIVE JoinAu(_)
JoinAu(ps) ==
    IF Len(ps) = 1 THEN ps[1].s ELSE ps[1].s \o <<" ","a","u"," ">> \o JoinAu(Tail(ps))

DatesCall(head, phrases) ==
    [fn |-> "parse_dates_in_text", done |-> FALSE, phrases |-> phrases,
     text |-> head \o JoinAu(phrases)]

InitDates ==
    /\ \E head \in PhraseHeads, phrases \in PhraseLists : call = DatesCall(head, phrases)
    /\ ChkIdle /\ RunIdle /\ StoreIdle /\ MainIdle

ParseDatesInText ==
    /\ call.fn = "parse_dates_in_text" /\ ~call.done
    /\ call' = [fn |-> call.fn, done |-> TRUE, phrases |-> call.phrases, text |-> call.text,
                out |-> parse_dates_in_text(call.text)]
    /\ UNCHANGED <<chkVars, runVars, storeVars, mainVars>>

NextDates == ParseDatesInText

SpecDates == InitDates /\ [][NextDates]_vars

DatesDone == call.fn = "parse_dates_in_text" /\ call.done
\* the dates the phrases write, in the order of the text
RECURSIVE Written(_)
Written(ps) == IF ps = <<>> THEN <<>> ELSE ps[1].d \o Written(Tail(ps))
BothValid == Len(call.phrases) = 2 /\ call.phrases[1].d # None /\ call.phrases[2].d # None

\* C22: parse_dates_in_text returns one date for each '<day> <month name>
\* <year>' occurrence that is a valid calendar date, drops every invalid
\* combination without raising, and for any 'A au B' whose two sides are valid
\* returns exactly two dates in chronological order.
C22_DatesOfText ==
    DatesDone =>
        /\ call.out = Written(call.phrases)
        /\ BothValid =>
             /\ Len(call.out) = 2
             /\ Ordinal(call.out[1]) <= Ordinal(call.out[2])

\* C22 amended: the two dates of 'A au B' come in the order of the text, which
\* is chronological when A is not after B
C22_DatesOfTextInOrder ==
    DatesDone =>
        /\ call.out = Written(call.phrases)
        /\ BothValid =>
             /\ Len(call.out) = 2
             /\ call.out = <<call.phrases[1].d[1], call.phrases[2].d[1]>>
             /\ Ordinal(call.phrases[1].d[1]) <= Ordinal(call.phrases[2].d[1])
                  => Ordinal(call.out[1]) <= Ordinal(call.out[2])

C22_Witness ==
    /\ DatesDone
    /\ call.text = <<"D","u"," ","3","1"," ","f","é","v","r","i","e","r"," ","2","0","2","6"," ","a","u"," ","2","9"," ","F","é","v","r","i","e","r"," ","2","0","2","4">>
    /\ call.out = <<YMD(2024, 2, 29)>>


(***************************************************************************)
(* extract_page_data: the date found by regex in the text of the page      *)
(***************************************************************************)
AUTRES == <<"a","u","t","r","e","s"," ","a","c","t","i","v","i","t">>

\* s.find(needle): the 0-based index of the first occurrence, -1 without one
Find(s, needle) ==
    IF IsSubstring(needle, s)
    THEN Min({p \in 0..(Len(s) - Len(needle)) : \A k \in 1..Len(needle) : s[p + k] = needle[k]})
    ELSE -1

\* full_text[:cut_idx] if cut_idx > 0 else full_text
search_text(full_text) ==
    IF Find(Lower(full_text), AUTRES) > 0
    THEN Take(full_text, Find(Lower(full_text), AUTRES))
    ELSE full_text

\* DATE_RANGE (re.I) tried at the 0-based index p: its two groups and its end
RangeAtI(s, p) ==
    LET r == RunLengths(Lower(s), p, RangePattern)
    IN  [ok     |-> /\ DateRunsOk(r, 0)
                    /\ r[6] >= 1 /\ r[7] = 1 /\ r[8] = 1 /\ r[9] >= 1
                    /\ DateRunsOk(r, 9),
         first  |-> Slice(s, p, SumTo(r, 5)),
         second |-> Slice(s, p + SumTo(r, 9), SumTo(r, 14) - SumTo(r, 9))]
RangeStartsI(s) == {p \in 0..(Len(s) - 1) : s[p + 1] \in Digits /\ RangeAtI(s, p).ok}

\* DATE_LIST tried at the 0-based index p: the length of the match, 0 without one
DateLenAt(s, p) ==
    LET r == RunLengths(s, p, DatePatternLow)
    IN  IF DateRunsOk(r, 0) THEN SumTo(r, 5) ELSE 0
\* DATE_LIST.findall from the index pos on
RECURSIVE FindAllDates(_, _)
FindAllDates(s, pos) ==
    LET starts == {p \in pos..(Len(s) - 1) : s[p + 1] \in Digits /\ DateLenAt(s, p) > 0}
    IN  IF starts = {} THEN <<>>
        ELSE <<Slice(s, Min(starts), DateLenAt(s, Min(starts)))>>
             \o FindAllDates(s, Min(starts) + DateLenAt(s, Min(starts)))

AU == <<" ","a","u"," ">>
\* the range of the leftmost DATE_RANGE match, else the first and the last of
\* the dates found, else the only one, else ''
DateStrOfList(all_d) ==
    IF Len(all_d) >= 2 THEN all_d[1] \o AU \o all_d[Len(all_d)]
    ELSE IF Len(all_d) = 1 THEN all_d[1] ELSE <<>>
DateStrIn(s) ==
    IF RangeStartsI(s) # {}
    THEN RangeAtI(s, Min(RangeStartsI(s))).first \o AU \o RangeAtI(s, Min(RangeStartsI(s))).second
    ELSE DateStrOfList(FindAllDates(s, 0))

\* the regex fallback of extract_page_data on the text of the body
date_str_fallback(full_text) == DateStrIn(search_text(full_text))

\* scrape_event_detail of scraper_mnbaq: the siblings that follow the
\* 'Informations' heading, up to the next heading tag, joined by ' \n'
HEADING_TAGS == {"h1", "h2", "h3", "h4", "h5"}
RECURSIVE InfoParts(_)
InfoParts(sibs) ==
    IF sibs = <<>> \/ sibs[1].name \in HEADING_TAGS THEN <<>>
    ELSE (IF sibs[1].s = <<>> THEN <<>> ELSE <<sibs[1].s>>) \o InfoParts(Tail(sibs))
RECURSIVE JoinWith(_, _)
JoinWith(parts, sep) ==
    IF parts = <<>> THEN <<>>
    ELSE IF Len(parts) = 1 THEN parts[1]
    ELSE parts[1] \o sep \o JoinWith(Tail(parts), sep)
info_text(sibs) == JoinWith(InfoParts(sibs), <<" ", "\n">>)
dates_text(sibs) == DateStrIn(info_text(sibs))

\* The elements of a page: the tag, the text, the date tokens the text
\* writes, and whether it is the 'Autres activités' heading.
Piece(name, s, tokens, heading) == [name |-> name, s |-> s, tokens |-> tokens, heading |-> heading]
CutPieces ==
    {Piece("p", <<"L","e"," ","1","5"," ","f","é","v","r","i","e","r"," ","2","0","2","6">>, <<<<"1","5"," ","f","é","v","r","i","e","r"," ","2","0","2","6">>>>, FALSE),
     Piece("p", <<"D","u"," ","1"," ","m","a","r","s"," ","2","0","2","6"," ","a","u"," ","3"," ","m","a","r","s"," ","2","0","2","6">>, <<<<"1"," ","m","a","r","s"," ","2","0","2","6">>, <<"3"," ","m","a","r","s"," ","2","0","2","6">>>>, FALSE),
     Piece("p", <<"A","t","e","l","i","e","r">>, <<>>, FALSE),
     Piece("h2", <<"A","u","t","r","e","s"," ","a","c","t","i","v","i","t","é","s">>, <<>>, TRUE),
     Piece("h2", <<"A","U","T","R","E","S"," ","A","C","T","I","V","I","T","É","S">>, <<>>, TRUE),
     Piece("p", <<"9"," ","a","v","r","i","l"," ","2","0","2","6">>, <<<<"9"," ","a","v","r","i","l"," ","2","0","2","6">>>>, FALSE)}
MaxCutPieces == 3
Pages == UNION {[1..n -> CutPieces] : n \in 1..MaxCutPieces}
\* body.get_text(" ", strip=True)
PageText(ps) == JoinWith([k \in 1..Len(ps) |-> ps[k].s], <<" ">>)

CutCall(fn, ps) == [fn |-> fn, done |-> FALSE, pieces |-> ps]
InitCut ==
    /\ \E fn \in {"extract_page_data", "scrape_event_detail"}, ps \in Pages : call = CutCall(fn, ps)
    /\ ChkIdle /\ RunIdle /\ StoreIdle /\ MainIdle

ExtractDateStr ==
    /\ call.fn = "extract_page_data" /\ ~call.done
    /\ call' = [fn |-> call.fn, done |-> TRUE, pieces |-> call.pieces,
                out |-> date_str_fallback(PageText(call.pieces))]
    /\ UNCHANGED <<chkVars, runVars, storeVars, mainVars>>

ScrapeDatesText ==
    /\ call.fn = "scrape_event_detail" /\ ~call.done
    /\ call' = [fn |-> call.fn, done |-> TRUE, pieces |-> call.pieces,
                out |-> dates_text(call.pieces)]
    /\ UNCHANGED <<chkVars, runVars, storeVars, mainVars>>

NextCut == ExtractDateStr \/ ScrapeDatesText
SpecCut == InitCut /\ [][NextCut]_vars

CutDone == call.fn \in {"extract_page_data", "scrape_event_detail"} /\ call.done
\* the date tokens written before the first heading of the page
RECURSIVE TokensBefore(_)
TokensBefore(ps) ==
    IF ps = <<>> \/ ps[1].heading THEN <<>> ELSE ps[1].tokens \o TokensBefore(Tail(ps))
HasHeading(ps) == \E k \in 1..Len(ps) : ps[k].heading
BuiltFrom(out, tokens) ==
    \/ out = <<>>
    \/ \E j \in 1..Len(tokens) : out = tokens[j]
    \/ \E j, k \in 1..Len(tokens) : out = tokens[j] \o AU \o tokens[k]

\* C21: on a page with an 'Autres activités' heading, the date string found
\* by regex is built only from the date tokens written before the first
\* occurrence of the heading, wherever the heading sits in the text.
C21_OnlyDatesBeforeHeading ==
    (CutDone /\ HasHeading(call.pieces)) =>
        BuiltFrom(call.out, TokensBefore(call.pieces))

\* C21 as coded: the same when some text precedes the heading
C21_OnlyDatesBeforeLaterHeading ==
    (CutDone /\ HasHeading(call.pieces) /\ ~call.pieces[1].heading) =>
        BuiltFrom(call.out, TokensBefore(call.pieces))

\* the date of the page is found and the date after the heading is left out
C21_CutReached ==
    /\ CutDone /\ call.fn = "extract_page_data"
    /\ Len(call.pieces) = 3 /\ call.pieces[2].heading /\ call.pieces[3].tokens # <<>>
    /\ call.out = <<"1","5"," ","f","é","v","r","i","e","r"," ","2","0","2","6">>


(***************************************************************************)
(* similarity on pairs of strings                                          *)
(***************************************************************************)
MaxSimLen == 2
SimSamples == {<<"b","a","c","b">>, <<"t","i","d","e">>, <<"d","i","e","t">>, <<"A","B">>, <<" ","a"," "," ","b"," ">>, <<"a"," ","b">>,
               <<"l", "rsquo", "a">>, <<"l","'","a">>}
SimInputs == StringsUpTo({"a", "b"}, MaxSimLen) \cup SimSamples

InitSim ==
    /\ \E a \in SimInputs, b \in SimInputs :
          call = [fn |-> "similarity", done |-> FALSE, a |-> a, b |-> b]
    /\ ChkIdle /\ RunIdle /\ StoreIdle /\ MainIdle

Similarity ==
    /\ call.fn = "similarity" /\ ~call.done
    /\ call' = [fn |-> call.fn, done |-> TRUE, a |-> call.a, b |-> call.b,
                out |-> similarity(call.a, call.b)]
    /\ UNCHANGED <<chkVars, runVars, storeVars, mainVars>>

NextSim == Similarity
SpecSim == InitSim /\ [][NextSim]_vars

SimDone == call.fn = "similarity" /\ call.done
IsOne(r) == r.num = r.den
InUnit(r) == r.den > 0 /\ 0 <= r.num /\ r.num <= r.den
\* the normalized forms of the samples, written out
SameNorm(a, b) ==
    \/ a = b
    \/ {a, b} \subseteq {<<"A","B">>, <<"a","b">>}
    \/ {a, b} \subseteq {<<" ","a"," "," ","b"," ">>, <<"a"," ","b">>}
    \/ {a, b} \subseteq {<<"l", "rsquo", "a">>, <<"l","'","a">>}

\* C23: similarity(a, b) = similarity(b, a), similarity(a, a) = 1.0, the
\* result lies in [0, 1], and it is 1.0 if and only if the normalized forms
\* of a and b are equal.
C23_Similarity ==
    SimDone =>
        /\ call.out = similarity(call.b, call.a)
        /\ (call.a = call.b => IsOne(call.out))
        /\ InUnit(call.out)
        /\ (IsOne(call.out) <=> SameNorm(call.a, call.b))

\* C23 as coded: all of it but the symmetry
C23_SimilarityOneWay ==
    SimDone =>
        /\ (call.a = call.b => IsOne(call.out))
        /\ InUnit(call.out)
        /\ (IsOne(call.out) <=> SameNorm(call.a, call.b))

\* the ratio of 'ab' to 'bacb' is 4/6 and that of 'bacb' to 'ab' is 2/6
C23_OrderMatters ==
    /\ SimDone /\ call.a = <<"a","b">> /\ call.b = <<"b","a","c","b">>
    /\ call.out = [num |-> 4, den |-> 6]
    /\ similarity(call.b, call.a) = [num |-> 2, den |-> 6]


(***************************************************************************)
(* The shapes of evenements.json and the components that read it           *)
(***************************************************************************)
ArrayFile(l) == [kind |-> "array", key |-> "", events |-> l]
\* json.dump({"evenements": evenements}, f) of scraper.py
WrappedFile(l) == [kind |-> "object", key |-> "evenements", events |-> l]
MissingFile == [kind |-> "missing", key |-> "", events |-> <<>>]

\* the merge step of a source script on the file f: the exception that ends
\* the script, and the file it leaves.  Iterating a dict gives its keys, and
\* a str has no get: AttributeError, before the file is opened for writing.
merge_step(f, fragment, results) ==
    IF f.kind \in {"missing", "array"}
    THEN [exc  |-> "",
          file |-> ArrayFile(Merge([exists |-> f.kind = "array", records |-> f.events],
                                   fragment, results).records)]
    ELSE IF f.kind \in {"object", "event"} THEN [exc |-> "AttributeError", file |-> f]
    ELSE [exc |-> "TypeError", file |-> f]

MaxReads == 3
MERGING == {"BDQ", "MCQ", "Moulin", "Gestev"}
RecordOf(source) ==
    [NoEvent EXCEPT !.titre = <<"a">>,
                    !.URL = urljoin(BASE_URL(source), DetailPath(source) \o <<"a">>)]
\* the records of scraper.py carry no URL
ScraperBatches == {<<>>, <<[NoEvent EXCEPT !.titre = <<"a">>]>>}
ShapeBatches(source) == {<<>>, <<RecordOf(source)>>}
ShapeFiles == {MissingFile, ArrayFile(<<>>)} \cup {ArrayFile(<<RecordOf(s)>>) : s \in MERGING}

Reading(f, n, reader, before, exc, got) ==
    [fn |-> "interchange", file |-> f, n |-> n, reader |-> reader, before |-> before,
     exc |-> exc, got |-> got]
InitShapes ==
    /\ \E f \in ShapeFiles : call = Reading(f, 0, "", MissingFile, "", <<>>)
    /\ ChkIdle /\ RunIdle /\ StoreIdle /\ MainIdle

CanRead == call.fn = "interchange" /\ call.n < MaxReads

\* python scraper.py: the batch is written under the key "evenements"
ScraperMain ==
    /\ CanRead
    /\ \E batch \in ScraperBatches :
         call' = Reading(WrappedFile(batch), call.n + 1, "scraper.py", call.file, "", <<>>)
    /\ UNCHANGED <<chkVars, runVars, storeVars, mainVars>>

MergeStepOf(source) ==
    /\ CanRead
    /\ \E results \in ShapeBatches(source) :
         call' = Reading(merge_step(call.file, FRAGMENT(source), results).file, call.n + 1,
                         source, call.file,
                         merge_step(call.file, FRAGMENT(source), results).exc, results)
    /\ UNCHANGED <<chkVars, runVars, storeVars, mainVars>>
MergeStepBDQ == MergeStepOf("BDQ")
MergeStepMCQ == MergeStepOf("MCQ")
MergeStepMoulin == MergeStepOf("Moulin")
MergeStepGestev == MergeStepOf("Gestev")

\* python detectivent.py: load_events(INPUT_FILE)
LoadEvents ==
    /\ CanRead
    /\ call' = Reading(call.file, call.n + 1, "detectivent", call.file,
                       load_events(call.file).exc, load_events(call.file).events)
    /\ UNCHANGED <<chkVars, runVars, storeVars, mainVars>>

NextShapes ==
    \/ ScraperMain
    \/ MergeStepBDQ \/ MergeStepMCQ \/ MergeStepMoulin \/ MergeStepGestev
    \/ LoadEvents
SpecShapes == InitShapes /\ [][NextShapes]_vars

HasRead == call.fn = "interchange" /\ call.reader \in MERGING \cup {"detectivent"}
EitherShape(f) == f.kind = "array" \/ (f.kind = "object" /\ f.key \in KNOWN_KEYS)

\* C24: every component that reads the interchange file proceeds normally on
\* a bare array and on an object wrapping the array under a known key, the
\* store written by scraper.py included: load_events returns the records,
\* and a merge step writes the other records followed by its batch.
C24_BothShapesAccepted ==
    (HasRead /\ EitherShape(call.before)) =>
        /\ call.exc = ""
        /\ call.reader = "detectivent" => call.got = call.before.events
        /\ call.reader \in MERGING =>
             call.file = ArrayFile(SelectSeq(call.before.events,
                             LAMBDA e : ~IsSubstring(FRAGMENT(call.reader), e.URL)) \o call.got)

\* C24 as coded: the verifier reads both shapes, a merge step the bare array
C24_ArrayAccepted ==
    (HasRead /\ EitherShape(call.before)
       /\ (call.reader = "detectivent" \/ call.before.kind = "array")) =>
        /\ call.exc = ""
        /\ call.reader = "detectivent" => call.got = call.before.events
        /\ call.reader \in MERGING =>
             call.file = ArrayFile(SelectSeq(call.before.events,
                             LAMBDA e : ~IsSubstring(FRAGMENT(call.reader), e.URL)) \o call.got)

\* a merge step ends on the store written by scraper.py and leaves it as it was
C24_MergeFailsOnWrapped ==
    /\ HasRead /\ call.reader = "BDQ" /\ call.got # <<>>
    /\ call.before = WrappedFile(<<[NoEvent EXCEPT !.titre = <<"a">>]>>)
    /\ call.exc = "AttributeError" /\ call.file = call.before


(***************************************************************************)
(* quartier.py: resoudre_quartier                                          *)
(***************************************************************************)
\* unicodedata.normalize("NFKD", c) without its combining marks
Unaccent(c) ==
    CASE c \in {"é", "è", "ê", "ë"} -> "e"
      [] c \in {"à", "â"} -> "a"
      [] c \in {"î", "ï"} -> "i"
      [] c = "ô" -> "o"
      [] c \in {"û", "ù"} -> "u"
      [] c = "ç" -> "c"
      [] OTHER -> c

\* a normalisation that keeps the accents
normalise_KeepAccents(text) == Lower(text)

\* _normalise: lower case without accents
normalise(text) == [k \in 1..Len(text) |-> Unaccent(LowerChar(text[k]))]

Rule(keywords, label) == [keywords |-> keywords, label |-> label]
QUARTIER_RULES ==
    <<
      Rule(<<<<"v","i","e","u","x","-","q","u","é","b","e","c">>,
       <<"v","i","e","u","x"," ","q","u","é","b","e","c">>,
       <<"v","i","e","u","x","-","q","u","e","b","e","c">>,
       <<"v","i","e","u","x"," ","q","u","e","b","e","c">>,
       <<"h","a","u","t","e","-","v","i","l","l","e">>,
       <<"h","a","u","t","e"," ","v","i","l","l","e">>,
       <<"b","a","s","s","e","-","v","i","l","l","e">>,
       <<"b","a","s","s","e"," ","v","i","l","l","e">>,
       <<"p","e","t","i","t","-","c","h","a","m","p","l","a","i","n">>,
       <<"p","e","t","i","t"," ","c","h","a","m","p","l","a","i","n">>,
       <<"p","l","a","c","e"," ","r","o","y","a","l","e">>,
       <<"c","h","â","t","e","a","u"," ","f","r","o","n","t","e","n","a","c">>,
       <<"c","h","a","t","e","a","u"," ","f","r","o","n","t","e","n","a","c">>,
       <<"t","e","r","r","a","s","s","e"," ","d","u","f","f","e","r","i","n">>,
       <<"r","u","e"," ","s","a","i","n","t","-","l","o","u","i","s">>,
       <<"r","u","e"," ","d","e","s"," ","r","e","m","p","a","r","t","s">>,
       <<"f","o","r","t","i","f","i","c","a","t","i","o","n","s">>,
       <<"c","a","p","-","b","l","a","n","c">>,
       <<"c","a","p"," ","b","l","a","n","c">>,
       <<"c","o","l","l","i","n","e"," ","p","a","r","l","e","m","e","n","t","a","i","r","e">>,
       <<"q","u","a","r","t","i","e","r"," ","l","a","t","i","n">>,
       <<"r","u","e"," ","d","'","a","u","t","e","u","i","l">>,
       <<"c","ô","t","e"," ","d","e"," ","l","a"," ","f","a","b","r","i","q","u","e">>,
       <<"r","u","e"," ","b","u","a","d","e">>,
       <<"p","o","r","t","e"," ","s","a","i","n","t","-","j","e","a","n">>,
       <<"p","o","r","t","e"," ","s","a","i","n","t"," ","j","e","a","n">>>>,
         <<"V","i","e","u","x","-","Q","u","é","b","e","c">>),
      Rule(<<<<"m","o","n","t","c","a","l","m">>,
       <<"g","r","a","n","d","e"," ","a","l","l","é","e">>,
       <<"g","r","a","n","d","e"," ","a","l","l","e","e">>,
       <<"a","v","e","n","u","e"," ","c","a","r","t","i","e","r">>,
       <<"a","v","."," ","c","a","r","t","i","e","r">>,
       <<"a","v"," ","c","a","r","t","i","e","r">>,
       <<"p","l","a","i","n","e","s"," ","d","'","a","b","r","a","h","a","m">>,
       <<"p","l","a","i","n","e","s"," ","a","b","r","a","h","a","m">>,
       <<"m","u","s","é","e"," ","n","a","t","i","o","n","a","l"," ","d","e","s"," ","b","e","a","u","x","-","a","r","t","s">>,
       <<"m","n","b","a","q">>,
       <<"g","r","a","n","d"," ","t","h","é","â","t","r","e">>,
       <<"g","r","a","n","d"," ","t","h","e","a","t","r","e">>,
       <<"c","o","m","p","l","e","x","e"," ","m","é","d","u","s","e">>,
       <<"c","o","m","p","l","e","x","e"," ","m","e","d","u","s","e">>,
       <<"s","a","i","n","t","-","s","a","c","r","e","m","e","n","t">>,
       <<"s","a","i","n","t"," ","s","a","c","r","e","m","e","n","t">>,
       <<"b","o","u","l","e","v","a","r","d"," ","r","e","n","é","-","l","é","v","e","s","q","u","e"," ","o","u","e","s","t">>>>,
         <<"M","o","n","t","c","a","l","m">>),
      Rule(<<<<"c","h","a","r","l","e","s","b","o","u","r","g">>,
       <<"t","r","a","i","t","-","c","a","r","r","é">>,
       <<"t","r","a","i","t"," ","c","a","r","r","é">>,
       <<"t","r","a","i","t"," ","c","a","r","r","e">>,
       <<"t","r","é","c","a","r","r","é">>,
       <<"t","r","e","c","a","r","r","e">>,
       <<"b","o","u","r","g","-","r","o","y","a","l">>,
       <<"b","o","u","r","g"," ","r","o","y","a","l">>,
       <<"n","o","t","r","e","-","d","a","m","e","-","d","e","s","-","l","a","u","r","e","n","t","i","d","e","s">>,
       <<"n","o","t","r","e"," ","d","a","m","e"," ","d","e","s"," ","l","a","u","r","e","n","t","i","d","e","s">>,
       <<"o","r","s","a","i","n","v","i","l","l","e">>,
       <<"d","e","s"," ","j","é","s","u","i","t","e","s">>,
       <<"d","e","s"," ","j","e","s","u","i","t","e","s">>,
       <<"m","o","u","l","i","n"," ","d","e","s"," ","j","é","s","u","i","t","e","s">>,
       <<"b","o","u","l","e","v","a","r","d"," ","h","e","n","r","i","-","b","o","u","r","a","s","s","a">>,
       <<"g","a","l","e","r","i","e","s"," ","c","h","a","r","l","e","s","b","o","u","r","g">>,
       <<"z","o","o"," ","d","e"," ","q","u","é","b","e","c">>,
       <<"z","o","o"," ","d","e"," ","q","u","e","b","e","c">>,
       <<"j","a","r","d","i","n"," ","z","o","o","l","o","g","i","q","u","e">>,
       <<"p","a","r","c"," ","d","e","s"," ","m","o","u","l","i","n","s">>>>,
         <<"C","h","a","r","l","e","s","b","o","u","r","g">>),
      Rule(<<<<"l","e","s"," ","r","i","v","i","è","r","e","s">>,
       <<"l","e","s"," ","r","i","v","i","e","r","e","s">>,
       <<"n","e","u","f","c","h","â","t","e","l">>,
       <<"n","e","u","f","c","h","a","t","e","l">>,
       <<"l","e","b","o","u","r","g","n","e","u","f">>,
       <<"l","e"," ","b","o","u","r","g","-","n","e","u","f">>,
       <<"d","u","b","e","r","g","e","r">>,
       <<"l","e","s"," ","s","a","u","l","e","s">>,
       <<"v","a","n","i","e","r">>,
       <<"b","o","u","l","e","v","a","r","d"," ","h","a","m","e","l">>,
       <<"c","e","n","t","r","e"," ","v","i","d","é","o","t","r","o","n">>,
       <<"c","e","n","t","r","e"," ","v","i","d","e","o","t","r","o","n">>,
       <<"p","a","r","c"," ","v","i","c","t","o","r","i","a">>,
       <<"e","x","p","o","c","i","t","é">>,
       <<"e","x","p","o","c","i","t","e">>>>,
         <<"L","e","s"," ","R","i","v","i","è","r","e","s">>),
      Rule(<<<<"b","e","a","u","p","o","r","t">>,
       <<"c","h","u","t","e"," ","m","o","n","t","m","o","r","e","n","c","y">>,
       <<"c","h","u","t","e","s"," ","m","o","n","t","m","o","r","e","n","c","y">>,
       <<"m","o","n","t","m","o","r","e","n","c","y">>,
       <<"d","'","e","s","t","i","m","a","u","v","i","l","l","e">>,
       <<"d"," ","e","s","t","i","m","a","u","v","i","l","l","e">>,
       <<"g","i","f","f","a","r","d">>,
       <<"v","i","l","l","e","n","e","u","v","e">>,
       <<"c","o","u","r","v","i","l","l","e">>,
       <<"a","v","e","n","u","e"," ","r","o","y","a","l","e">>>>,
         <<"B","e","a","u","p","o","r","t">>),
      Rule(<<<<"l","a"," ","h","a","u","t","e","-","s","a","i","n","t","-","c","h","a","r","l","e","s">>,
       <<"h","a","u","t","e","-","s","a","i","n","t","-","c","h","a","r","l","e","s">>,
       <<"h","a","u","t","e"," ","s","a","i","n","t"," ","c","h","a","r","l","e","s">>,
       <<"v","a","l","-","b","é","l","a","i","r">>,
       <<"v","a","l"," ","b","e","l","a","i","r">>,
       <<"l","a","c","-","s","a","i","n","t","-","c","h","a","r","l","e","s">>,
       <<"l","a","c"," ","s","a","i","n","t"," ","c","h","a","r","l","e","s">>,
       <<"s","a","i","n","t","-","é","m","i","l","e">>,
       <<"s","a","i","n","t"," ","e","m","i","l","e">>,
       <<"l","o","r","e","t","t","e","v","i","l","l","e">>,
       <<"l","o","r","e","t","t","e">>,
       <<"l","'","a","n","c","i","e","n","n","e","-","l","o","r","e","t","t","e">>,
       <<"a","n","c","i","e","n","n","e"," ","l","o","r","e","t","t","e">>,
       <<"a","n","c","i","e","n","n","e","-","l","o","r","e","t","t","e">>,
       <<"w","e","n","d","a","k","e">>,
       <<"p","a","r","c"," ","d","u"," ","m","o","n","t"," ","b","é","l","a","i","r">>,
       <<"m","o","n","t"," ","b","e","l","a","i","r">>,
       <<"m","o","n","t"," ","b","é","l","a","i","r">>>>,
         <<"L","a"," ","H","a","u","t","e","-","S","a","i","n","t","-","C","h","a","r","l","e","s">>),
      Rule(<<<<"s","a","i","n","t","e","-","f","o","y">>,
       <<"s","a","i","n","t","e"," ","f","o","y">>,
       <<"s","i","l","l","e","r","y">>,
       <<"c","a","p","-","r","o","u","g","e">>,
       <<"c","a","p"," ","r","o","u","g","e">>,
       <<"u","n","i","v","e","r","s","i","t","é"," ","l","a","v","a","l">>,
       <<"u","n","i","v","e","r","s","i","t","e"," ","l","a","v","a","l">>,
       <<"u","l","a","v","a","l">>,
       <<"c","i","t","é"," ","u","n","i","v","e","r","s","i","t","a","i","r","e">>,
       <<"c","i","t","e"," ","u","n","i","v","e","r","s","i","t","a","i","r","e">>,
       <<"c","é","g","e","p"," ","g","a","r","n","e","a","u">>,
       <<"c","e","g","e","p"," ","g","a","r","n","e","a","u">>,
       <<"p","l","a","c","e"," ","l","a","u","r","i","e","r">>,
       <<"p","l","a","c","e"," ","d","e"," ","l","a"," ","c","i","t","é">>,
       <<"b","o","u","l","e","v","a","r","d"," ","l","a","u","r","i","e","r">>,
       <<"p","r","o","m","e","n","a","d","e"," ","s","a","m","u","e","l","-","d","e","-","c","h","a","m","p","l","a","i","n">>,
       <<"p","r","o","m","e","n","a","d","e"," ","c","h","a","m","p","l","a","i","n">>,
       <<"c","h","e","m","i","n"," ","s","a","i","n","t","-","l","o","u","i","s">>,
       <<"a","v","e","n","u","e"," ","m","a","g","u","i","r","e">>,
       <<"p","o","n","t"," ","p","i","e","r","r","e","-","l","a","p","o","r","t","e">>,
       <<"p","o","n","t"," ","d","e"," ","q","u","é","b","e","c">>,
       <<"d","u"," ","p","l","a","t","e","a","u">>,
       <<"p","o","i","n","t","e","-","d","e","-","s","a","i","n","t","e","-","f","o","y">>>>,
         <<"S","a","i","n","t","e","-","F","o","y","ndash","S","i","l","l","e","r","y","ndash","C","a","p","-","R","o","u","g","e">>),
      Rule(<<<<"l","a"," ","c","i","t","é","-","l","i","m","o","i","l","o","u">>,
       <<"l","a"," ","c","i","t","e","-","l","i","m","o","i","l","o","u">>,
       <<"c","i","t","é","-","l","i","m","o","i","l","o","u">>,
       <<"c","i","t","e","-","l","i","m","o","i","l","o","u">>,
       <<"s","a","i","n","t","-","r","o","c","h">>,
       <<"s","a","i","n","t"," ","r","o","c","h">>,
       <<"r","u","e"," ","s","a","i","n","t","-","j","o","s","e","p","h">>,
       <<"r","u","e"," ","s","a","i","n","t"," ","j","o","s","e","p","h">>,
       <<"s","a","i","n","t","-","j","e","a","n","-","b","a","p","t","i","s","t","e">>,
       <<"s","a","i","n","t"," ","j","e","a","n"," ","b","a","p","t","i","s","t","e">>,
       <<"f","a","u","b","o","u","r","g"," ","s","a","i","n","t","-","j","e","a","n">>,
       <<"f","a","u","b","o","u","r","g"," ","s","a","i","n","t"," ","j","e","a","n">>,
       <<"s","a","i","n","t","-","s","a","u","v","e","u","r">>,
       <<"s","a","i","n","t"," ","s","a","u","v","e","u","r">>,
       <<"l","i","m","o","i","l","o","u">>,
       <<"v","i","e","u","x","-","l","i","m","o","i","l","o","u">>,
       <<"v","i","e","u","x"," ","l","i","m","o","i","l","o","u">>,
       <<"l","a","i","r","e","t">>,
       <<"m","a","i","z","e","r","e","t","s">>,
       <<"3","e"," ","a","v","e","n","u","e">>,
       <<"t","r","o","i","s","i","è","m","e"," ","a","v","e","n","u","e">>,
       <<"p","a","r","c"," ","c","a","r","t","i","e","r","-","b","r","é","b","e","u","f">>,
       <<"p","a","r","c"," ","c","a","r","t","i","e","r"," ","b","r","e","b","e","u","f">>,
       <<"b","i","b","l","i","o","t","h","è","q","u","e"," ","g","a","b","r","i","e","l","l","e","-","r","o","y">>,
       <<"b","i","b","l","i","o","t","h","e","q","u","e"," ","g","a","b","r","i","e","l","l","e","-","r","o","y">>>>,
         <<"L","a"," ","C","i","t","é","-","L","i","m","o","i","l","o","u">>)>>


Matches(rule, normalised) ==
    \E k \in 1..Len(rule.keywords) : IsSubstring(normalise(rule.keywords[k]), normalised)
\* the label of the first rule with a keyword in the text, '' without one
resoudre_quartier(lieu) ==
    IF lieu = <<>> THEN <<>>
    ELSE IF \E r \in 1..Len(QUARTIER_RULES) : Matches(QUARTIER_RULES[r], normalise(lieu))
    THEN QUARTIER_RULES[Min({r \in 1..Len(QUARTIER_RULES) :
                               Matches(QUARTIER_RULES[r], normalise(lieu))})].label
    ELSE <<>>

\* Venue texts with the rank of the rule the table gives for them, 0 for
\* none: the cases of the self-test, the examples of the docstring, and
\* texts written without accents or in capitals.
Lieu(s, rank) == [s |-> s, rank |-> rank]
LieuSamples ==
    {
     Lieu(<<"M","N","B","A","Q"," ","ndash"," ","P","a","v","i","l","l","o","n"," ","P","i","e","r","r","e"," ","L","a","s","s","o","n","d","e",","," ","G","r","a","n","d","e"," ","A","l","l","é","e"," ","E","s","t">>, 2),
     Lieu(<<"M","u","s","é","e"," ","d","e"," ","l","a"," ","c","i","v","i","l","i","s","a","t","i","o","n",","," ","r","u","e"," ","D","a","l","h","o","u","s","i","e",","," ","V","i","e","u","x","-","Q","u","é","b","e","c">>, 1),
     Lieu(<<"B","i","b","l","i","o","t","h","è","q","u","e"," ","G","a","b","r","i","e","l","l","e","-","R","o","y",","," ","r","u","e"," ","S","a","i","n","t","-","J","o","s","e","p","h",","," ","S","a","i","n","t","-","R","o","c","h">>, 8),
     Lieu(<<"3","e"," ","A","v","e","n","u","e",","," ","V","i","e","u","x","-","L","i","m","o","i","l","o","u">>, 8),
     Lieu(<<"C","e","n","t","r","e"," ","V","i","d","é","o","t","r","o","n",","," ","L","e","s"," ","R","i","v","i","è","r","e","s">>, 4),
     Lieu(<<"C","h","u","t","e","s"," ","M","o","n","t","m","o","r","e","n","c","y",","," ","B","e","a","u","p","o","r","t">>, 5),
     Lieu(<<"U","n","i","v","e","r","s","i","t","é"," ","L","a","v","a","l",","," ","S","a","i","n","t","e","-","F","o","y">>, 7),
     Lieu(<<"G","a","l","e","r","i","e","s"," ","C","h","a","r","l","e","s","b","o","u","r","g">>, 3),
     Lieu(<<"V","a","l","-","B","é","l","a","i","r",","," ","L","a"," ","H","a","u","t","e","-","S","a","i","n","t","-","C","h","a","r","l","e","s">>, 6),
     Lieu(<<"W","e","n","d","a","k","e",","," ","N","a","t","i","o","n"," ","H","u","r","o","n","n","e","-","W","e","n","d","a","t">>, 6),
     Lieu(<<"G","r","a","n","d"," ","T","h","é","â","t","r","e"," ","d","e"," ","Q","u","é","b","e","c">>, 2),
     Lieu(<<"P","o","r","t","e"," ","S","a","i","n","t","-","J","e","a","n",","," ","V","i","e","u","x","-","Q","u","é","b","e","c">>, 1),
     Lieu(<<"L","i","e","u"," ","t","o","t","a","l","e","m","e","n","t"," ","i","n","c","o","n","n","u">>, 0),
     Lieu(<<"M","N","B","A","Q",","," ","G","r","a","n","d","e"," ","A","l","l","é","e"," ","E","s","t">>, 2),
     Lieu(<<"C","h","u","t","e","s"," ","M","o","n","t","m","o","r","e","n","c","y">>, 5),
     Lieu(<<"L","i","e","u"," ","i","n","c","o","n","n","u">>, 0),
     Lieu(<<"B","o","u","l","e","v","a","r","d"," ","R","e","n","e","-","L","e","v","e","s","q","u","e"," ","O","u","e","s","t">>, 2),
     Lieu(<<"P","L","A","C","E"," ","D","E"," ","L","A"," ","C","I","T","É">>, 7),
     Lieu(<<"P","a","r","c"," ","C","a","r","t","i","e","r","-","B","r","é","b","e","u","f">>, 8)}
\* one venue text, or two joined by ', '
LieuInputs ==
    {<<a>> : a \in LieuSamples} \cup (LieuSamples \X LieuSamples) \cup {<<>>}
RECURSIVE LieuText(_)
LieuText(ls) ==
    IF ls = <<>> THEN <<>>
    ELSE IF Len(ls) = 1 THEN ls[1].s
    ELSE ls[1].s \o <<","," ">> \o LieuText(Tail(ls))

InitQuartier ==
    /\ \E ls \in LieuInputs :
          call = [fn |-> "resoudre_quartier", done |-> FALSE, parts |-> ls, lieu |-> LieuText(ls)]
    /\ ChkIdle /\ RunIdle /\ StoreIdle /\ MainIdle

ResoudreQuartier ==
    /\ call.fn = "resoudre_quartier" /\ ~call.done
    /\ call' = [fn |-> call.fn, done |-> TRUE, parts |-> call.parts, lieu |-> call.lieu,
                out |-> resoudre_quartier(call.lieu)]
    /\ UNCHANGED <<chkVars, runVars, storeVars, mainVars>>

NextQuartier == ResoudreQuartier
SpecQuartier == InitQuartier /\ [][NextQuartier]_vars

QuartierDone == call.fn = "resoudre_quartier" /\ call.done
\* the ranks of the rules that have a keyword in one of the parts
Ranks(ls) == {ls[k].rank : k \in 1..Len(ls)} \ {0}
LABELS ==
    <<<<"V","i","e","u","x","-","Q","u","é","b","e","c">>, <<"M","o","n","t","c","a","l","m">>, <<"C","h","a","r","l","e","s","b","o","u","r","g">>, <<"L","e","s"," ","R","i","v","i","è","r","e","s">>, <<"B","e","a","u","p","o","r","t">>,
      <<"L","a"," ","H","a","u","t","e","-","S","a","i","n","t","-","C","h","a","r","l","e","s">>, <<"S","a","i","n","t","e","-","F","o","y","ndash","S","i","l","l","e","r","y","ndash","C","a","p","-","R","o","u","g","e">>, <<"L","a"," ","C","i","t","é","-","L","i","m","o","i","l","o","u">>>>

\* C25: resoudre_quartier returns the label of the first rule, in table
\* order, that has a keyword in the venue text (both lowercased and without
\* accents), and '' when the text is empty or no keyword matches; 'MNBAQ,
\* Grande Allée Est' gives 'Montcalm' and 'Lieu inconnu' gives ''.
C25_FirstRuleInTableOrder ==
    QuartierDone =>
        /\ call.out = IF Ranks(call.parts) = {} THEN <<>> ELSE LABELS[Min(Ranks(call.parts))]
        /\ call.lieu = <<"M","N","B","A","Q",","," ","G","r","a","n","d","e"," ","A","l","l","é","e"," ","E","s","t">> => call.out = <<"M","o","n","t","c","a","l","m">>
        /\ call.lieu = <<"L","i","e","u"," ","i","n","c","o","n","n","u">> => call.out = <<>>

\* a keyword of Montcalm comes first in the text, the rule of Vieux-Québec
\* comes first in the table
C25_Witness ==
    /\ QuartierDone
    /\ call.lieu = <<"B","o","u","l","e","v","a","r","d"," ","R","e","n","e","-","L","e","v","e","s","q","u","e"," ","O","u","e","s","t",","," ","P","o","r","t","e"," ","S","a","i","n","t","-","J","e","a","n",","," ","V","i","e","u","x","-","Q","u","é","b","e","c">>
    /\ call.out = <<"V","i","e","u","x","-","Q","u","é","b","e","c">>


(***************************************************************************)
(* The date window of a run date                                           *)
(***************************************************************************)
RunYears == {1900, 2000, 2023, 2024, 2025, 2026, 2027, 2028, 2100}
RunDays == {1, 15, 28}
RunDates == {[year |-> y, month |-> m, day |-> d] : y \in RunYears, m \in 1..12, d \in RunDays}

InitRunDate ==
    /\ \E today \in RunDates : call = [fn |-> "window", done |-> FALSE, today |-> today]
    /\ ChkIdle /\ RunIdle /\ StoreIdle /\ MainIdle

\* the module-level assignments of DATE_MIN and DATE_MAX
SetWindow ==
    /\ call.fn = "window" /\ ~call.done
    /\ call' = [fn |-> call.fn, done |-> TRUE, today |-> call.today,
                date_min |-> DATE_MIN(call.today), date_max |-> DATE_MAX(call.today)]
    /\ UNCHANGED <<chkVars, runVars, storeVars, mainVars>>

NextRunDate == SetWindow
SpecRunDate == InitRunDate /\ [][NextRunDate]_vars

WindowSet == call.fn = "window" /\ call.done
Gregorian(y) == (y % 4 = 0 /\ y % 100 # 0) \/ y % 400 = 0
\* the last calendar day of the month m of the year y
LastDay(y, m) ==
    CASE m \in {1, 3, 5, 7, 8, 10, 12} -> 31
      [] m \in {4, 6, 9, 11} -> 30
      [] m = 2 -> IF Gregorian(y) THEN 29 ELSE 28

\* C26: DATE_MIN is the first day of the month of the run date and DATE_MAX
\* the last calendar day of the following month: the year is incremented
\* exactly when the run month is December, and February counts 29 days
\* exactly in Gregorian leap years.
C26_WindowOfRunDate ==
    WindowSet =>
        /\ call.date_min = [year |-> call.today.year, month |-> call.today.month, day |-> 1]
        /\ call.date_max.month = (IF call.today.month = 12 THEN 1 ELSE call.today.month + 1)
        /\ call.date_max.year = (IF call.today.month = 12 THEN call.today.year + 1
                                 ELSE call.today.year)
        /\ call.date_max.day = LastDay(call.date_max.year, call.date_max.month)
        /\ (call.date_max.month = 2 /\ call.date_max.day = 29) <=>
               (call.today.month = 1 /\ Gregorian(call.today.year))

\* a run of December 2027: the window ends on 31 January 2028; a run of
\* January 2100 would end on 28 February
C26_Witness ==
    /\ WindowSet
    /\ call.today = [year |-> 2027, month |-> 12, day |-> 15]
    /\ call.date_max = [year |-> 2028, month |-> 1, day |-> 31]


(***************************************************************************)
(* extract_page_data: the cascade of each field                            *)
(***************************************************************************)
\* A document: the content of the og:title and og:description tags and of
\* the description meta tag (None without the tag), the h1 and the
\* paragraphs of the body, the JSON-LD scripts, the venue the patterns find
\* in the text, and the text of the body.
NoDoc == [og_title |-> None, h1 |-> None, og_desc |-> None, meta_desc |-> None,
          paras |-> <<>>, scripts |-> <<>>, venue |-> <<>>, body_text |-> <<>>]

MIN_META_DESC == 30
MIN_PARA == 60
DESC_CAP == 500

\* og:title, then the h1 of the body
titre_of(doc) ==
    IF doc.og_title # None /\ Strip(doc.og_title[1]) # <<>> THEN Strip(doc.og_title[1])
    ELSE IF doc.h1 # None THEN doc.h1[1] ELSE <<>>

\* soup.find(og:description) or soup.find(name=description): a tag that is
\* found is true whatever its content
desc_tag(doc) == IF doc.og_desc # None THEN doc.og_desc ELSE doc.meta_desc
RECURSIVE FirstPara(_)
FirstPara(paras) ==
    IF paras = <<>> THEN <<>>
    ELSE IF Len(paras[1].s) > MIN_PARA /\ ~paras[1].junk THEN Take(paras[1].s, DESC_CAP)
    ELSE FirstPara(Tail(paras))
desc_of(doc) ==
    IF desc_tag(doc) # None /\ Len(Strip(desc_tag(doc)[1])) > MIN_META_DESC
    THEN Strip(desc_tag(doc)[1])
    ELSE FirstPara(doc.paras)

\* for key in ("startDate", "endDate", "datePublished"): the first value
DateOfItem(item) ==
    IF item.startDate # <<>> THEN item.startDate
    ELSE IF item.endDate # <<>> THEN item.endDate
    ELSE item.datePublished
\* the break leaves the loop over the keys only: every item with a date
\* assigns date_str
RECURSIVE ItemsDate(_, _)
ItemsDate(items, cur) ==
    IF items = <<>> THEN cur
    ELSE ItemsDate(Tail(items), IF DateOfItem(items[1]) # <<>> THEN DateOfItem(items[1]) ELSE cur)
\* the loop over the scripts stops after the first script that gave a date;
\* a script that json.loads rejects is passed over
RECURSIVE ScriptsDate(_)
ScriptsDate(scripts) ==
    IF scripts = <<>> THEN <<>>
    ELSE IF scripts[1].ok /\ ItemsDate(scripts[1].items, <<>>) # <<>>
    THEN ItemsDate(scripts[1].items, <<>>)
    ELSE ScriptsDate(Tail(scripts))
date_str_of(doc) ==
    IF ScriptsDate(doc.scripts) # <<>> THEN ScriptsDate(doc.scripts)
    ELSE date_str_fallback(doc.body_text)

\* loc = item.get("location", {}); if isinstance(loc, dict): lieu =
\* loc.get("name", "") or "": every item with a dict, or without location,
\* assigns lieu
RECURSIVE ItemsLieu(_, _)
ItemsLieu(items, cur) ==
    IF items = <<>> THEN cur
    ELSE ItemsLieu(Tail(items),
                   CASE items[1].location.kind = "absent" -> <<>>
                     [] items[1].location.kind = "dict" -> items[1].location.name
                     [] OTHER -> cur)
RECURSIVE ScriptsLieu(_)
ScriptsLieu(scripts) ==
    IF scripts = <<>> THEN <<>>
    ELSE IF scripts[1].ok /\ ItemsLieu(scripts[1].items, <<>>) # <<>>
    THEN ItemsLieu(scripts[1].items, <<>>)
    ELSE ScriptsLieu(Tail(scripts))
\* the venue patterns on the text first, JSON-LD when they find nothing
lieu_of(doc) == IF doc.venue # <<>> THEN doc.venue ELSE ScriptsLieu(doc.scripts)

\* the page as the field cascades present it
SoupOf(doc) ==
    [NoSoup EXCEPT !.titre = titre_of(doc), !.date_str = date_str_of(doc),
                   !.lieu = lieu_of(doc), !.description = desc_of(doc),
                   !.rest = doc.body_text]

Location(kind, name) == [kind |-> kind, name |-> name]
Item(startDate, endDate, datePublished, location) ==
    [startDate |-> startDate, endDate |-> endDate, datePublished |-> datePublished,
     location |-> location]
ItemSamples ==
    {Item(<<>>, <<>>, <<>>, Location("other", <<>>)),
     Item(<<"2","0","2","6","-","0","3","-","0","1">>, <<>>, <<>>, Location("dict", <<"S","a","l","l","e"," ","A">>)),
     Item(<<>>, <<"2","0","2","6","-","0","5","-","0","9">>, <<"2","0","2","5","-","0","1","-","0","1">>, Location("absent", <<>>)),
     Item(<<"2","0","2","6","-","0","5","-","0","9">>, <<>>, <<>>, Location("dict", <<"P","a","r","c"," ","B">>)),
     Item(<<>>, <<>>, <<>>, Location("dict", <<>>))}
MaxItems == 2
MaxScripts == 2
Script(ok, items) == [ok |-> ok, items |-> items]
ScriptSamples ==
    {Script(FALSE, <<>>)}
    \cup {Script(TRUE, l) : l \in UNION {[1..n -> ItemSamples] : n \in 0..MaxItems}}
ScriptLists == UNION {[1..n -> ScriptSamples] : n \in 0..MaxScripts}
LongDesc == Rep("d", MIN_META_DESC + 1)
ShortDesc == Rep("d", MIN_META_DESC)
Para(s, junk) == [s |-> s, junk |-> junk]
ParaLists ==
    {<<>>, <<Para(Rep("p", MIN_PARA), FALSE), Para(Rep("c", MIN_PARA + 1), TRUE),
             Para(Rep("q", MIN_PARA + 1), FALSE), Para(Rep("r", MIN_PARA + 1), FALSE)>>}
Docs ==
    {[NoDoc EXCEPT !.scripts = l, !.venue = v, !.body_text = t] :
       l \in ScriptLists, v \in {<<>>, <<"C","e","n","t","r","e"," ","V","i","d","é","o","t","r","o","n">>},
       t \in {<<>>, <<"L","e"," ","9"," ","a","v","r","i","l"," ","2","0","2","6">>}}
    \cup {[NoDoc EXCEPT !.og_title = o, !.h1 = h] :
            o \in {None, Some(<<>>), Some(<<" ">>), Some(<<" ","C","o","n","t","e"," ">>)},
            h \in {None, Some(<<"H","e","u","r","e"," ","d","u"," ","c","o","n","t","e">>)}}
    \cup {[NoDoc EXCEPT !.og_desc = o, !.meta_desc = m, !.paras = p] :
            o \in {None, Some(ShortDesc), Some(LongDesc)},
            m \in {None, Some(Rep("m", MIN_META_DESC + 1))}, p \in ParaLists}

InitCascade ==
    /\ \E doc \in Docs : call = [fn |-> "cascade", done |-> FALSE, doc |-> doc]
    /\ ChkIdle /\ RunIdle /\ StoreIdle /\ MainIdle

ExtractPageData ==
    /\ call.fn = "cascade" /\ ~call.done
    /\ call' = [fn |-> call.fn, done |-> TRUE, doc |-> call.doc,
                out |-> extract_page_data(SoupOf(call.doc))]
    /\ UNCHANGED <<chkVars, runVars, storeVars, mainVars>>

NextCascade == ExtractPageData
SpecCascade == InitCascade /\ [][NextCascade]_vars

CascadeDone == call.fn = "cascade" /\ call.done
\* the first non-empty value of a list of candidates, '' without one
RECURSIVE FirstOf(_)
FirstOf(cands) ==
    IF cands = <<>> THEN <<>>
    ELSE IF cands[1] # <<>> THEN cands[1] ELSE FirstOf(Tail(cands))
\* the candidates of the JSON-LD items, in the order of the document
RECURSIVE ItemDates(_)
ItemDates(items) ==
    IF items = <<>> THEN <<>> ELSE <<DateOfItem(items[1])>> \o ItemDates(Tail(items))
RECURSIVE JsonLdDates(_)
JsonLdDates(scripts) ==
    IF scripts = <<>> THEN <<>>
    ELSE (IF scripts[1].ok THEN ItemDates(scripts[1].items) ELSE <<>>)
         \o JsonLdDates(Tail(scripts))
RECURSIVE ItemPlaces(_)
ItemPlaces(items) ==
    IF items = <<>> THEN <<>> ELSE <<items[1].location.name>> \o ItemPlaces(Tail(items))
RECURSIVE JsonLdPlaces(_)
JsonLdPlaces(scripts) ==
    IF scripts = <<>> THEN <<>>
    ELSE (IF scripts[1].ok THEN ItemPlaces(scripts[1].items) ELSE <<>>)
         \o JsonLdPlaces(Tail(scripts))
TitleCands(doc) ==
    <<IF doc.og_title = None THEN <<>> ELSE Strip(doc.og_title[1]),
      IF doc.h1 = None THEN <<>> ELSE doc.h1[1]>>
TextDate(doc) == IF doc.body_text = <<>> THEN <<>> ELSE <<"9"," ","a","v","r","i","l"," ","2","0","2","6">>

\* C27: each field is determined by the first strategy or candidate that
\* yields a non-empty value, structured metadata (Open Graph, JSON-LD) being
\* tried before the regions and the text of the page: a later strategy, or a
\* later JSON-LD item, never overrides an earlier success.
C27_FirstSuccessWins ==
    CascadeDone =>
        /\ call.out.titre = FirstOf(TitleCands(call.doc))
        /\ call.out.date_str = FirstOf(JsonLdDates(call.doc.scripts) \o <<TextDate(call.doc)>>)
        /\ call.out.lieu = FirstOf(JsonLdPlaces(call.doc.scripts) \o <<call.doc.venue>>)

\* C27 as coded: the title, the date when no script holds two dated items,
\* and the description, for which a short og:description hides the
\* description meta tag
C27_FirstSuccessWinsForTitle ==
    CascadeDone =>
        /\ call.out.titre = FirstOf(TitleCands(call.doc))
        /\ (\A k \in 1..Len(call.doc.scripts) :
               Len(SelectSeq(ItemDates(call.doc.scripts[k].items), LAMBDA d : d # <<>>)) <= 1)
             => call.out.date_str
                  = FirstOf(JsonLdDates(call.doc.scripts) \o <<TextDate(call.doc)>>)
        /\ call.doc.og_desc = Some(LongDesc) => call.out.description = LongDesc
        /\ (call.doc.og_desc = None /\ call.doc.meta_desc # None)
             => call.out.description = call.doc.meta_desc[1]
        /\ (call.doc.og_desc = Some(ShortDesc) /\ call.doc.paras # <<>>)
             => call.out.description = Rep("q", MIN_PARA + 1)

\* the second item of a script overrides the date of the first
C27_LaterItemOverrides ==
    /\ CascadeDone
    /\ Len(call.doc.scripts) = 1 /\ Len(call.doc.scripts[1].items) = 2
    /\ call.doc.scripts[1].items[1].startDate = <<"2","0","2","6","-","0","3","-","0","1">>
    /\ call.out.date_str = <<"2","0","2","6","-","0","5","-","0","9">>


(***************************************************************************)
(* scraper_moulin: format_date_range, and the verifier reading its result  *)
(***************************************************************************)
MONTH_NAMES ==
    <<<<>>, <<"j","a","n","v","i","e","r">>, <<"f","é","v","r","i","e","r">>, <<"m","a","r","s">>, <<"a","v","r","i","l">>, <<"m","a","i">>, <<"j","u","i","n">>,
      <<"j","u","i","l","l","e","t">>, <<"a","o","û","t">>, <<"s","e","p","t","e","m","b","r","e">>, <<"o","c","t","o","b","r","e">>, <<"n","o","v","e","m","b","r","e">>, <<"d","é","c","e","m","b","r","e">>>>
\* f"{d.day} {MONTH_NAMES[d.month]} {d.year}"
FullDate(d) == IntStr(d.day) \o <<" ">> \o MONTH_NAMES[d.month + 1] \o <<" ">> \o IntStr(d.year)

\* format_date_range(start, end), None being written <<>>
format_date_range(start, end) ==
    IF start = None THEN <<>>
    ELSE IF start = end THEN FullDate(start[1])
    ELSE IF start[1].month = end[1].month /\ start[1].year = end[1].year
    THEN IntStr(start[1].day) \o <<" ","a","u"," ">> \o FullDate(end[1])
    ELSE FullDate(start[1]) \o <<" ","a","u"," ">> \o FullDate(end[1])

RangeDays ==
    {YMD(2026, 2, 15), YMD(2026, 3, 1), YMD(2026, 3, 31), YMD(2026, 5, 5), YMD(2026, 5, 9),
     YMD(2026, 8, 1), YMD(2026, 12, 31), YMD(2027, 1, 2), YMD(2027, 5, 5), YMD(2028, 2, 29)}
\* extract_iso_dates gives a start and an end, or (None, None)
DateRanges ==
    {<<Some(p[1]), Some(p[2])>> :
       p \in {q \in RangeDays \X RangeDays : Ordinal(q[1]) <= Ordinal(q[2])}}
    \cup {<<None, None>>}

InitFormat ==
    /\ \E r \in DateRanges :
          call = [fn |-> "format_date_range", done |-> FALSE, start |-> r[1], end |-> r[2]]
    /\ ChkIdle /\ RunIdle /\ StoreIdle /\ MainIdle

\* the date string scraper_moulin publishes
FormatDateRange ==
    /\ call.fn = "format_date_range" /\ ~call.done
    /\ call' = [fn |-> "parse_published", done |-> FALSE, start |-> call.start, end |-> call.end,
                date_str |-> format_date_range(call.start, call.end)]
    /\ UNCHANGED <<chkVars, runVars, storeVars, mainVars>>

\* the verifier reads the published string
ParsePublished ==
    /\ call.fn = "parse_published" /\ ~call.done
    /\ call' = [fn |-> call.fn, done |-> TRUE, start |-> call.start, end |-> call.end,
                date_str |-> call.date_str, out |-> parse_dates_in_text(call.date_str)]
    /\ UNCHANGED <<chkVars, runVars, storeVars, mainVars>>

NextFormat == FormatDateRange \/ ParsePublished
SpecFormat == InitFormat /\ [][NextFormat]_vars

Parsed == call.fn = "parse_published" /\ call.done /\ call.start # None
SameMonth == call.start[1].month = call.end[1].month /\ call.start[1].year = call.end[1].year

\* C28: for Moulin's format_date_range(start, end) with start <= end,
\* parse_dates_in_text of the published string gives [start] when start =
\* end and [start, end] otherwise.
C28_RoundTrip ==
    Parsed =>
        call.out = IF call.start = call.end THEN <<call.start[1]>>
                   ELSE <<call.start[1], call.end[1]>>

\* C28 as coded: the round trip of a single day and of a range over two months
C28_RoundTripAcrossMonths ==
    (Parsed /\ (call.start = call.end \/ ~SameMonth)) =>
        call.out = IF call.start = call.end THEN <<call.start[1]>>
                   ELSE <<call.start[1], call.end[1]>>

\* 5 to 9 May 2026 is published as '5 au 9 mai 2026', read as 9 May alone
C28_StartLost ==
    /\ Parsed
    /\ call.start = Some(YMD(2026, 5, 5)) /\ call.end = Some(YMD(2026, 5, 9))
    /\ call.date_str = <<"5"," ","a","u"," ","9"," ","m","a","i"," ","2","0","2","6">>
    /\ call.out = <<YMD(2026, 5, 9)>>


(***************************************************************************)
(* A source script from main() to the merge into evenements.json           *)
(***************************************************************************)
StoredRecord(source) ==
    Evenement(<<"b">>, <<>>, <<>>, urljoin(BASE_URL(source), DetailPath(source) \o <<"b">>))
\* the store before the run: absent, or an array with a record of each source
PriorStores ==
    {[exists |-> FALSE, records |-> <<>>],
     [exists |-> TRUE,
      records |-> <<StoredRecord("MNBAQ"), StoredRecord("BDQ"), StoredRecord("MCQ"),
                    StoredRecord("Moulin"), StoredRecord("Gestev")>>]}

InitScript ==
    /\ scraper \in MERGING /\ mpc = "listing"
    /\ page_num = (IF scraper = "Gestev" THEN 0 ELSE 1)
    /\ total_pages = 0 /\ empty_streak = 0
    /\ all_cards = <<>> /\ unique_cards = <<>> /\ nth = 0 /\ evenements = <<>>
    /\ fetches = <<>>
    /\ call = NoCall /\ ChkIdle /\ RunIdle
    /\ store \in PriorStores /\ runs = <<>>

\* if __name__ == "__main__": results = main(), then the merge
MergeResults ==
    /\ mpc = "returned" /\ scraper \in MERGING
    /\ store' = Merge(store, FRAGMENT(scraper), evenements)
    /\ runs' = Append(runs, Run(scraper, evenements, TRUE))
    /\ mpc' = "merged"
    /\ UNCHANGED <<scraper, page_num, total_pages, empty_streak, all_cards, unique_cards,
                   nth, evenements, fetches, call, chkVars, runVars>>

NextScript ==
    \/ ListBDQ
    \/ ListMoulin
    \/ ListMCQ
    \/ ListGestev
    \/ DetailBDQ
    \/ DetailMCQ
    \/ DetailMoulin
    \/ DetailGestev
    \/ Return
    \/ MergeResults

SpecScript == InitScript /\ [][NextScript]_vars

\* the first fetch of the run, that of the listing entry page, failed
EntryPageFailed == fetches # <<>> /\ fetches[1].what = "listing" /\ ~fetches[1].ok
OfSource(source, records) == SelectSeq(records, LAMBDA e : IsSubstring(FRAGMENT(source), e.URL))
NotOfSource(source, records) ==
    SelectSeq(records, LAMBDA e : ~IsSubstring(FRAGMENT(source), e.URL))

\* C29: when a source script (BDQ, MCQ, Moulin or Gestev) cannot fetch its
\* listing entry page, main() returns an empty batch and the merge step
\* still removes every prior record of the source: the run ends with no
\* record of the source in the store and the other records unchanged.
C29_FailedRunEmptiesSource ==
    (mpc = "merged" /\ EntryPageFailed) =>
        /\ evenements = <<>>
        /\ store.exists
        /\ OfSource(scraper, store.records) = <<>>
        /\ store.records = NotOfSource(scraper, runs[1].before)

\* the records of BDQ are gone after a run of scraper_bdq that fetched nothing
C29_Witness ==
    /\ mpc = "merged" /\ EntryPageFailed /\ scraper = "BDQ"
    /\ OfSource("BDQ", runs[1].before) = <<StoredRecord("BDQ")>>
    /\ store.records = <<StoredRecord("MNBAQ"), StoredRecord("MCQ"), StoredRecord("Moulin"),
                         StoredRecord("Gestev")>>


(***************************************************************************)
(* Two source scripts merging into evenements.json at the same time        *)
(***************************************************************************)
FreshRecord(source, slug) ==
    Evenement(slug, <<>>, <<>>, urljoin(BASE_URL(source), DetailPath(source) \o slug))
FreshBatches(source) ==
    {<<FreshRecord(source, <<"a">>)>>,
     <<FreshRecord(source, <<"a">>), FreshRecord(source, <<"c">>)>>}
\* a script between main() and the end of its merge: it has its results, then
\* the value json.load gave it, then it has written
Script1(source, results) ==
    [source |-> source, results |-> results, at |-> "loaded", existing |-> <<>>]
SourcePairs == {p \in MERGING \X MERGING : p[1] # p[2]}

\* the store a script reads at its write
Existing_Reread(held, st) == ReadStore(st)

\* the list a script filters and extends: the one it loaded
Existing(held, st) == held

InitRace ==
    /\ \E p \in SourcePairs, st \in PriorStores :
         \E b1 \in FreshBatches(p[1]), b2 \in FreshBatches(p[2]) :
            /\ store = st
            /\ call = [fn |-> "race", prior |-> ReadStore(st), log |-> <<>>,
                       scripts |-> <<Script1(p[1], b1), Script1(p[2], b2)>>]
    /\ runs = <<>>
    /\ ChkIdle /\ RunIdle /\ MainIdle

\* existing = json.load(open(OUTPUT_FILE)), [] without the file
ReadExisting ==
    /\ call.fn = "race"
    /\ \E k \in 1..2 :
         /\ call.scripts[k].at = "loaded"
         /\ call' = [call EXCEPT !.scripts[k].at = "read",
                                 !.scripts[k].existing = ReadStore(store),
                                 !.log = Append(@, <<"read", k>>)]
    /\ UNCHANGED <<store, runs, chkVars, runVars, mainVars>>

\* the filter, the extend and the json.dump
WriteMerged ==
    /\ call.fn = "race"
    /\ \E k \in 1..2 :
         /\ call.scripts[k].at = "read"
         /\ store' = Merge([exists |-> TRUE,
                            records |-> Existing(call.scripts[k].existing, store)],
                           FRAGMENT(call.scripts[k].source), call.scripts[k].results)
         /\ call' = [call EXCEPT !.scripts[k].at = "written",
                                 !.log = Append(@, <<"write", k>>)]
    /\ UNCHANGED <<runs, chkVars, runVars, mainVars>>

NextRace == ReadExisting \/ WriteMerged
SpecRace == InitRace /\ [][NextRace]_vars

BothWritten == call.fn = "race" /\ Len(call.log) = 4
\* both scripts read the store before either wrote it
BothReadFirst == call.log[1][1] = "read" /\ call.log[2][1] = "read"
\* one script read and wrote before the other read
OneAfterTheOther == call.log[2][1] = "write"
FirstWriter == call.scripts[call.log[3 - (IF BothReadFirst THEN 0 ELSE 1)][2]]
LastWriter == call.scripts[call.log[4][2]]
HoldsBatch(s) == OfSource(s.source, store.records) = s.results

\* C30: the merge is a non-atomic read-filter-append-write.  When the two
\* scripts both read the store before either writes it, the final store
\* lacks the fresh batch of the script that wrote first: it holds that
\* source's records as they were before; when the two merges run one after
\* the other, the final store holds both fresh batches.
C30_LostUpdate ==
    BothWritten =>
        /\ HoldsBatch(LastWriter)
        /\ BothReadFirst =>
             /\ ~HoldsBatch(FirstWriter)
             /\ OfSource(FirstWriter.source, store.records)
                  = OfSource(FirstWriter.source, call.prior)
        /\ OneAfterTheOther => HoldsBatch(FirstWriter)

\* scraper_mcq and scraper_gestev both read the five records, scraper_mcq
\* writes first, and the final store holds the old record of MCQ
C30_Witness ==
    /\ BothWritten /\ BothReadFirst
    /\ FirstWriter.source = "MCQ" /\ LastWriter.source = "Gestev"
    /\ OfSource("MCQ", store.records) = <<StoredRecord("MCQ")>>
    /\ OfSource("Gestev", store.records) = <<FreshRecord("Gestev", <<"a">>)>>

\* the same two scripts one after the other
C30_BothKept ==
    /\ BothWritten /\ OneAfterTheOther
    /\ FirstWriter.source = "MCQ" /\ LastWriter.source = "Gestev"
    /\ OfSource("MCQ", store.records) = <<FreshRecord("MCQ", <<"a">>)>>
    /\ OfSource("Gestev", store.records) = <<FreshRecord("Gestev", <<"a">>)>>

====
